---- MODULE Spec2Model ----
(***************************************************************************)
(* Model of the mutating resources of terraform-provider-gdp-middleware-   *)
(* helper: aurora_reboot, neptune_reboot, neptune_modify, aurora_modify,   *)
(* rds_modify and rds_reboot.  One Terraform resource instance goes        *)
(* through its lifecycle (Create, then Read / Update / Delete); every      *)
(* handler is cut at the calls it makes to the AWS SDK (describe, modify,  *)
(* reboot, failover, native waiter, sleep), whose answers are chosen by    *)
(* the environment.  `calls` is the log of the SDK calls of the handler    *)
(* that is running (or ran last).  A second specification, SpecConc, runs  *)
(* two Create handlers of the Neptune reboot resource at the same time; a  *)
(* third, SpecLambda, is the execute_aws_lambda_function resource.         *)
(***************************************************************************)
EXTENDS Integers, Sequences, FiniteSets, TLC

\* ---------------------------------------------------------------- bounds
MaxMembers == 3
MaxOps == 2

\* ------------------------------------------------------ program constants
maxAttempts == 60
SleepSeconds == 30
WaitBudgetSeconds == 1800

\* ----------------------------------------------------------------- state
VARIABLES
    resource,          \* which resource type this instance is
    ident,             \* cluster_identifier / db_instance_identifier of the plan
    op,                \* handler running: Create, Read, Update, Delete
    pc,                \* position inside the handler
    ForceFailover,     \* data.ForceFailover of the plan: "unset", "false", "true"
    DBClusterMembers,  \* cluster.DBClusterMembers read by this handler
    i,                 \* loop variable of the handler's current loop
    calls,             \* SDK calls issued by this handler, in order
    lastStatus,        \* what the handler's last describe call reported
    diags,             \* summary of resp.Diagnostics error, or "none"
    detail,            \* the identifier the error detail names, or ""
    elapsed,           \* seconds this handler spent in waiters and sleeps
    tfstate,           \* the Terraform state of the resource
    wrote,             \* this handler called resp.State.Set
    opCount,           \* handlers started so far
    inv,               \* the invocations that run concurrently, one record each
    rclient,           \* r.client, the client the provider configured
    lambda             \* the execute_aws_lambda_function resource instance

vars == <<resource, ident, op, pc, ForceFailover, DBClusterMembers, i, calls,
          lastStatus, diags, detail, elapsed, tfstate, wrote, opCount,
          inv, rclient, lambda>>

Resources == {"aurora_reboot", "neptune_reboot", "neptune_modify",
              "aurora_modify", "rds_modify", "rds_reboot"}

Identifiers == {"db-1", "db-2"}

AllInstanceIds == <<"db-a", "db-b", "db-c", "db-d", "db-e", "db-f">>

InstanceIds == {AllInstanceIds[k] : k \in 1..MaxMembers}

Tristate == {"unset", "false", "true"}

\* types.DBClusterMember, the two fields the handlers read
Member == [DBInstanceIdentifier : InstanceIds, IsClusterWriter : BOOLEAN]

\* every member list a describe call can return: distinct instances, any roles
MemberLists ==
    {m \in UNION {[1..n -> Member] : n \in 0..MaxMembers} :
        \A a, b \in 1..Len(m) :
            a # b => m[a].DBInstanceIdentifier # m[b].DBInstanceIdentifier}

\* DescribeDBClusters as the reboot handlers read it: error, no cluster, or
\* one cluster with its member list
TopologyResponses ==
    {[err |-> TRUE, DBClusters |-> <<>>], [err |-> FALSE, DBClusters |-> <<>>]}
    \cup {[err |-> FALSE, DBClusters |-> <<[DBClusterMembers |-> m]>>] :
            m \in MemberLists}

\* DescribeDBClusters as the polling loop reads it: error, no cluster, or
\* one cluster with its Status
Statuses == {"available", "modifying", "failed"}

StatusResponses ==
    {[err |-> TRUE, DBClusters |-> <<>>], [err |-> FALSE, DBClusters |-> <<>>]}
    \cup {[err |-> FALSE, DBClusters |-> <<[Status |-> s]>>] : s \in Statuses}

\* how long a native waiter with the 30 minute budget can take: it returns
\* at once or when the budget is used up
WaitDurations == {0, WaitBudgetSeconds}

\* data.Region: null, or set with LoadDefaultConfig succeeding or failing
ConfigOutcomes == {"default", "region_ok", "region_err"}

\* one SDK call: the API, the identifier it addresses, the failover target
\* (FailoverDBCluster only), the ForceFailover parameter and whether it erred
Call(api, id, target, ff, err) ==
    [api |-> api, id |-> id, target |-> target, ForceFailover |-> ff, err |-> err]

\* no state, with null attributes
NoState ==
    [present |-> FALSE, identifier |-> "", id |-> "", time |-> [op |-> 0, at |-> 0]]

\* time.Now(): the handler's number and the calls that have returned so far
Now(log) == [op |-> opCount, at |-> Len(log)]

\* "Set computed values" + resp.State.Set of a Create handler
CreateState(log) ==
    [present |-> TRUE, identifier |-> ident, id |-> ident, time |-> Now(log)]

\* "Set computed values" + resp.State.Set of an Update handler: the id is the
\* plan's, which UseStateForUnknown copies from the prior state
UpdateState(log) ==
    [present |-> TRUE, identifier |-> ident, id |-> tfstate.id, time |-> Now(log)]

\* the error is added but the handler does not return
Fail_NoReturn(summary) ==
    /\ diags' = summary
    /\ detail' = ""
    /\ pc' = pc

\* resp.Diagnostics.AddError(...); return
Fail(summary) ==
    /\ diags' = summary
    /\ detail' = ""
    /\ pc' = "done"

\* resp.Diagnostics.AddError(...) with a detail that names a cluster or an
\* instance; return
FailNaming(summary, name) ==
    /\ diags' = summary
    /\ detail' = name
    /\ pc' = "done"

\* what a describe call reported: an error, an empty list or an entry
DescribeReport(r) ==
    IF r.err THEN "error"
    ELSE IF Len(r.DBClusters) = 0 THEN "empty"
    ELSE "found"

Init ==
    /\ resource \in Resources
    /\ ident \in Identifiers
    /\ op = "none"
    /\ pc = "idle"
    /\ ForceFailover = "unset"
    /\ DBClusterMembers = <<>>
    /\ i = 0
    /\ calls = <<>>
    /\ lastStatus = "none"
    /\ diags = "none"
    /\ detail = ""
    /\ elapsed = 0
    /\ tfstate = NoState
    /\ wrote = FALSE
    /\ opCount = 0
    /\ inv = <<>>
    /\ rclient = "default"
    /\ lambda = <<>>

\* first position of each handler
FirstPc(res, o) ==
    IF o = "Read" THEN "read"
    ELSE IF o = "Delete" THEN "delete"
    ELSE IF o = "Import" THEN "import"
    ELSE IF res \in {"aurora_reboot", "neptune_reboot"} THEN "describe"
    ELSE IF res = "rds_reboot" THEN "reboot"
    ELSE "modify"

\* Terraform invokes a handler: Create without state, Read / Update / Delete
\* with state; the handler's locals start fresh
\* a handler entry that keeps the member list of the handler before it
Begin_KeepsMembers(o, ff) ==
    /\ pc \in {"idle", "done"}
    /\ opCount < MaxOps
    /\ op' = o
    /\ pc' = FirstPc(resource, o)
    /\ ForceFailover' = ff
    /\ DBClusterMembers' = DBClusterMembers
    /\ i' = 0
    /\ calls' = <<>>
    /\ lastStatus' = "none"
    /\ diags' = "none"
    /\ detail' = ""
    /\ elapsed' = 0
    /\ wrote' = FALSE
    /\ opCount' = opCount + 1
    /\ UNCHANGED <<resource, ident, tfstate, inv, rclient, lambda>>

Begin(o, ff) ==
    /\ pc \in {"idle", "done"}
    /\ opCount < MaxOps
    /\ op' = o
    /\ pc' = FirstPc(resource, o)
    /\ ForceFailover' = ff
    /\ DBClusterMembers' = <<>>
    /\ i' = 0
    /\ calls' = <<>>
    /\ lastStatus' = "none"
    /\ diags' = "none"
    /\ detail' = ""
    /\ elapsed' = 0
    /\ wrote' = FALSE
    /\ opCount' = opCount + 1
    /\ UNCHANGED <<resource, ident, tfstate, inv, rclient, lambda>>

PlanForceFailover ==
    IF resource \in {"aurora_reboot", "rds_reboot"} THEN Tristate ELSE {"unset"}

BeginCreate ==
    /\ ~tfstate.present
    /\ \E ff \in PlanForceFailover : Begin("Create", ff)

BeginUpdate ==
    /\ tfstate.present
    /\ \E ff \in PlanForceFailover : Begin("Update", ff)

BeginRead ==
    /\ tfstate.present
    /\ Begin("Read", "unset")

BeginDelete ==
    /\ tfstate.present
    /\ Begin("Delete", "unset")

\* terraform import <address> <identifier> on a resource that is not in state
BeginImport ==
    /\ ~tfstate.present
    /\ Begin("Import", "unset")

\* ------------------------------------------------ aurora_reboot, classifier
\* len(cluster.DBClusterMembers)
instanceCount(m) == Len(m)

ReaderIndexes(m) == {k \in 1..Len(m) : ~m[k].IsClusterWriter}

hasReaderInstance(m) == ReaderIndexes(m) # {}

\* the loop without its break: the last member that is not the writer
readerInstanceID_NoBreak(m) ==
    LET last == CHOOSE k \in ReaderIndexes(m) : \A j \in ReaderIndexes(m) : k >= j
    IN  m[last].DBInstanceIdentifier

\* the loop breaks at the first member that is not the writer
readerInstanceID(m) ==
    LET first == CHOOSE k \in ReaderIndexes(m) : \A j \in ReaderIndexes(m) : k <= j
    IN  m[first].DBInstanceIdentifier

\* the failover branch taken whenever force_failover is set
UseFailover_AnyValue(m, ff) ==
    instanceCount(m) >= 2 /\ hasReaderInstance(m) /\ ff # "unset"

\* the condition of the failover branch
UseFailover(m, ff) ==
    instanceCount(m) >= 2 /\ hasReaderInstance(m) /\ ff # "unset" /\ ff = "true"

\* the hint forwarded without looking at the number of instances
RebootHint_AnyCount(m, ff) ==
    IF ff # "unset" THEN ff ELSE "unset"

\* rebootInput.ForceFailover of the per-member reboot
\* the hint forwarded only when force_failover is true
RebootHint_OnlyTrue(m, ff) ==
    IF instanceCount(m) >= 2 /\ ff = "true" THEN ff ELSE "unset"

RebootHint(m, ff) ==
    IF instanceCount(m) >= 2 /\ ff # "unset" THEN ff ELSE "unset"

\* what no handler step changes
Plan == <<resource, ident, op, ForceFailover, opCount, inv, rclient, lambda>>

\* --------------------------------------------------- aurora_reboot, Create
\* region handling, DescribeDBClusters and the choice of strategy
\* the describe step without the test of len(clusterOutput.DBClusters): an
\* empty result is taken as a cluster that has no member
AuroraRebootCreateDescribe_NoEmptyCheck ==
    /\ resource = "aurora_reboot" /\ op = "Create" /\ pc = "describe"
    /\ \E cfg \in ConfigOutcomes, r \in TopologyResponses :
         IF cfg = "region_err"
         THEN /\ Fail("Unable to load AWS SDK config")
              /\ UNCHANGED <<calls, lastStatus, DBClusterMembers, i>>
         ELSE /\ calls' = Append(calls, Call("DescribeDBClusters", ident, "", "unset", r.err))
              /\ lastStatus' = DescribeReport(r)
              /\ IF r.err
                 THEN Fail("Error describing Aurora cluster")
                      /\ UNCHANGED <<DBClusterMembers, i>>
                 ELSE LET m == IF Len(r.DBClusters) = 0 THEN <<>>
                               ELSE r.DBClusters[1].DBClusterMembers
                      IN  /\ DBClusterMembers' = m
                          /\ i' = 1
                          /\ UNCHANGED <<diags, detail>>
                          /\ pc' = IF UseFailover(m, ForceFailover) THEN "failover"
                                   ELSE IF i' <= Len(m) THEN "reboot"
                                   ELSE "wait"
    /\ UNCHANGED <<Plan, elapsed, tfstate, wrote>>

AuroraRebootCreateDescribe ==
    /\ resource = "aurora_reboot" /\ op = "Create" /\ pc = "describe"
    /\ \E cfg \in ConfigOutcomes, r \in TopologyResponses :
         IF cfg = "region_err"
         THEN /\ Fail("Unable to load AWS SDK config")
              /\ UNCHANGED <<calls, lastStatus, DBClusterMembers, i>>
         ELSE /\ calls' = Append(calls, Call("DescribeDBClusters", ident, "", "unset", r.err))
              /\ lastStatus' = DescribeReport(r)
              /\ IF r.err
                 THEN Fail("Error describing Aurora cluster")
                      /\ UNCHANGED <<DBClusterMembers, i>>
                 ELSE IF Len(r.DBClusters) = 0
                 THEN FailNaming("Aurora cluster not found", ident)
                      /\ UNCHANGED <<DBClusterMembers, i>>
                 ELSE LET m == r.DBClusters[1].DBClusterMembers
                      IN  /\ DBClusterMembers' = m
                          /\ i' = 1
                          /\ UNCHANGED <<diags, detail>>
                          /\ pc' = IF UseFailover(m, ForceFailover) THEN "failover"
                                   ELSE IF i' <= Len(m) THEN "reboot"
                                   ELSE "wait"
    /\ UNCHANGED <<Plan, elapsed, tfstate, wrote>>

\* FailoverDBCluster on the first reader
\* the failover step without its return: the error is reported and the
\* handler goes on to the waiter
AuroraRebootCreateFailover_NoReturn ==
    /\ resource = "aurora_reboot" /\ op = "Create" /\ pc = "failover"
    /\ \E err \in BOOLEAN :
         /\ calls' = Append(calls, Call("FailoverDBCluster", ident,
                                        readerInstanceID(DBClusterMembers), "unset", err))
         /\ diags' = IF err THEN "Error failing over Aurora cluster" ELSE diags
         /\ detail' = detail
         /\ pc' = "wait"
    /\ UNCHANGED <<Plan, elapsed, DBClusterMembers, i, lastStatus, tfstate, wrote>>

AuroraRebootCreateFailover ==
    /\ resource = "aurora_reboot" /\ op = "Create" /\ pc = "failover"
    /\ \E err \in BOOLEAN :
         /\ calls' = Append(calls, Call("FailoverDBCluster", ident,
                                        readerInstanceID(DBClusterMembers), "unset", err))
         /\ IF err
            THEN Fail("Error failing over Aurora cluster")
            ELSE pc' = "wait" /\ UNCHANGED <<diags, detail>>
    /\ UNCHANGED <<Plan, elapsed, DBClusterMembers, i, lastStatus, tfstate, wrote>>

\* the loop recording the error of a reboot and going on to the next member
AuroraRebootCreateReboot_Continue ==
    /\ resource = "aurora_reboot" /\ op = "Create" /\ pc = "reboot"
    /\ \E err \in BOOLEAN :
         /\ calls' = Append(calls, Call("RebootDBInstance",
                                        DBClusterMembers[i].DBInstanceIdentifier, "",
                                        RebootHint(DBClusterMembers, ForceFailover), err))
         /\ diags' = IF err THEN "Error rebooting Aurora instance" ELSE diags
         /\ detail' = IF err THEN DBClusterMembers[i].DBInstanceIdentifier ELSE detail
         /\ i' = i + 1
         /\ pc' = IF i' <= Len(DBClusterMembers) THEN "reboot" ELSE "wait"
    /\ UNCHANGED <<Plan, elapsed, DBClusterMembers, lastStatus, tfstate, wrote>>

\* one iteration of the loop rebooting every member
AuroraRebootCreateReboot ==
    /\ resource = "aurora_reboot" /\ op = "Create" /\ pc = "reboot"
    /\ \E err \in BOOLEAN :
         /\ calls' = Append(calls, Call("RebootDBInstance",
                                        DBClusterMembers[i].DBInstanceIdentifier, "",
                                        RebootHint(DBClusterMembers, ForceFailover), err))
         /\ IF err
            THEN FailNaming("Error rebooting Aurora instance", DBClusterMembers[i].DBInstanceIdentifier) /\ i' = i
            ELSE /\ i' = i + 1
                 /\ pc' = IF i' <= Len(DBClusterMembers) THEN "reboot" ELSE "wait"
                 /\ UNCHANGED <<diags, detail>>
    /\ UNCHANGED <<Plan, elapsed, DBClusterMembers, lastStatus, tfstate, wrote>>

\* DBClusterAvailableWaiter, then the timestamp and resp.State.Set
AuroraRebootCreateWait ==
    /\ resource = "aurora_reboot" /\ op = "Create" /\ pc = "wait"
    /\ \E err \in BOOLEAN, d \in WaitDurations :
         /\ elapsed' = elapsed + d
         /\ calls' = Append(calls, Call("WaitDBClusterAvailable", ident, "", "unset", err))
         /\ IF err
            THEN Fail("Error waiting for Aurora cluster to become available")
                 /\ UNCHANGED <<tfstate, wrote>>
            ELSE /\ tfstate' = CreateState(calls')
                 /\ wrote' = TRUE
                 /\ pc' = "done"
                 /\ UNCHANGED <<diags, detail>>
    /\ UNCHANGED <<Plan, DBClusterMembers, i, lastStatus>>

\* --------------------------------------------------- aurora_reboot, Update
AuroraRebootUpdateDescribe ==
    /\ resource = "aurora_reboot" /\ op = "Update" /\ pc = "describe"
    /\ \E cfg \in ConfigOutcomes, r \in TopologyResponses :
         IF cfg = "region_err"
         THEN /\ Fail("Unable to load AWS SDK config")
              /\ UNCHANGED <<calls, lastStatus, DBClusterMembers, i>>
         ELSE /\ calls' = Append(calls, Call("DescribeDBClusters", ident, "", "unset", r.err))
              /\ lastStatus' = DescribeReport(r)
              /\ IF r.err
                 THEN Fail("Error describing Aurora cluster")
                      /\ UNCHANGED <<DBClusterMembers, i>>
                 ELSE IF Len(r.DBClusters) = 0
                 THEN FailNaming("Aurora cluster not found", ident)
                      /\ UNCHANGED <<DBClusterMembers, i>>
                 ELSE LET m == r.DBClusters[1].DBClusterMembers
                      IN  /\ DBClusterMembers' = m
                          /\ i' = 1
                          /\ UNCHANGED <<diags, detail>>
                          /\ pc' = IF UseFailover(m, ForceFailover) THEN "failover"
                                   ELSE IF i' <= Len(m) THEN "reboot"
                                   ELSE "wait"
    /\ UNCHANGED <<Plan, elapsed, tfstate, wrote>>

AuroraRebootUpdateFailover ==
    /\ resource = "aurora_reboot" /\ op = "Update" /\ pc = "failover"
    /\ \E err \in BOOLEAN :
         /\ calls' = Append(calls, Call("FailoverDBCluster", ident,
                                        readerInstanceID(DBClusterMembers), "unset", err))
         /\ IF err
            THEN Fail("Error failing over Aurora cluster")
            ELSE pc' = "wait" /\ UNCHANGED <<diags, detail>>
    /\ UNCHANGED <<Plan, elapsed, DBClusterMembers, i, lastStatus, tfstate, wrote>>

AuroraRebootUpdateReboot ==
    /\ resource = "aurora_reboot" /\ op = "Update" /\ pc = "reboot"
    /\ \E err \in BOOLEAN :
         /\ calls' = Append(calls, Call("RebootDBInstance",
                                        DBClusterMembers[i].DBInstanceIdentifier, "",
                                        RebootHint(DBClusterMembers, ForceFailover), err))
         /\ IF err
            THEN FailNaming("Error rebooting Aurora instance", DBClusterMembers[i].DBInstanceIdentifier) /\ i' = i
            ELSE /\ i' = i + 1
                 /\ pc' = IF i' <= Len(DBClusterMembers) THEN "reboot" ELSE "wait"
                 /\ UNCHANGED <<diags, detail>>
    /\ UNCHANGED <<Plan, elapsed, DBClusterMembers, lastStatus, tfstate, wrote>>

AuroraRebootUpdateWait ==
    /\ resource = "aurora_reboot" /\ op = "Update" /\ pc = "wait"
    /\ \E err \in BOOLEAN, d \in WaitDurations :
         /\ elapsed' = elapsed + d
         /\ calls' = Append(calls, Call("WaitDBClusterAvailable", ident, "", "unset", err))
         /\ IF err
            THEN Fail("Error waiting for Aurora cluster to become available")
                 /\ UNCHANGED <<tfstate, wrote>>
            ELSE /\ tfstate' = UpdateState(calls')
                 /\ wrote' = TRUE
                 /\ pc' = "done"
                 /\ UNCHANGED <<diags, detail>>
    /\ UNCHANGED <<Plan, DBClusterMembers, i, lastStatus>>

\* -------------------------------------------------- neptune_reboot, Create
\* region handling, DescribeDBClusters and the check for an empty cluster
NeptuneRebootCreateDescribe ==
    /\ resource = "neptune_reboot" /\ op = "Create" /\ pc = "describe"
    /\ \E cfg \in ConfigOutcomes, r \in TopologyResponses :
         IF cfg = "region_err"
         THEN /\ Fail("Unable to load AWS SDK config")
              /\ UNCHANGED <<calls, lastStatus, DBClusterMembers, i>>
         ELSE /\ calls' = Append(calls, Call("DescribeDBClusters", ident, "", "unset", r.err))
              /\ lastStatus' = DescribeReport(r)
              /\ IF r.err
                 THEN Fail("Error describing Neptune cluster")
                      /\ UNCHANGED <<DBClusterMembers, i>>
                 ELSE IF Len(r.DBClusters) = 0
                 THEN FailNaming("Neptune cluster not found", ident)
                      /\ UNCHANGED <<DBClusterMembers, i>>
                 ELSE LET instances == r.DBClusters[1].DBClusterMembers
                      IN  IF Len(instances) = 0
                          THEN FailNaming("No instances in cluster", ident)
                               /\ DBClusterMembers' = instances
                               /\ i' = i
                          ELSE /\ DBClusterMembers' = instances
                               /\ i' = 1
                               /\ UNCHANGED <<diags, detail>>
                               /\ pc' = "reboot"
    /\ UNCHANGED <<Plan, elapsed, tfstate, wrote>>

\* one iteration of the loop rebooting every instance; after the last one the
\* waiting loop starts at the first instance
\* one loop for both phases: each member is rebooted and then waited for
\* before the next member is rebooted
NeptuneRebootCreateReboot_ThenWait ==
    /\ resource = "neptune_reboot" /\ op = "Create" /\ pc = "reboot"
    /\ \E err \in BOOLEAN :
         /\ calls' = IF err
                     THEN Append(calls, Call("RebootDBInstance",
                                             DBClusterMembers[i].DBInstanceIdentifier, "",
                                             "unset", TRUE))
                     ELSE calls \o
                          <<Call("RebootDBInstance",
                                 DBClusterMembers[i].DBInstanceIdentifier, "", "unset", FALSE),
                            Call("WaitDBInstanceAvailable",
                                 DBClusterMembers[i].DBInstanceIdentifier, "", "unset", FALSE)>>
         /\ IF err
            THEN FailNaming("Error rebooting Neptune instance", DBClusterMembers[i].DBInstanceIdentifier) /\ i' = i
            ELSE /\ UNCHANGED <<diags, detail>>
                 /\ IF i + 1 <= Len(DBClusterMembers)
                    THEN i' = i + 1 /\ pc' = "reboot"
                    ELSE i' = 1 /\ pc' = "wait"
    /\ UNCHANGED <<Plan, elapsed, DBClusterMembers, lastStatus, tfstate, wrote>>

NeptuneRebootCreateReboot ==
    /\ resource = "neptune_reboot" /\ op = "Create" /\ pc = "reboot"
    /\ \E err \in BOOLEAN :
         /\ calls' = Append(calls, Call("RebootDBInstance",
                                        DBClusterMembers[i].DBInstanceIdentifier, "",
                                        "unset", err))
         /\ IF err
            THEN FailNaming("Error rebooting Neptune instance", DBClusterMembers[i].DBInstanceIdentifier) /\ i' = i
            ELSE /\ UNCHANGED <<diags, detail>>
                 /\ IF i + 1 <= Len(DBClusterMembers)
                    THEN i' = i + 1 /\ pc' = "reboot"
                    ELSE i' = 1 /\ pc' = "wait"
    /\ UNCHANGED <<Plan, elapsed, DBClusterMembers, lastStatus, tfstate, wrote>>

\* one iteration of the loop waiting for every instance; after the last one
\* the timestamp and resp.State.Set
\* the wait loop without its return: a failed wait is reported and the
\* loop goes on to the next member
NeptuneRebootCreateWait_Continue ==
    /\ resource = "neptune_reboot" /\ op = "Create" /\ pc = "wait"
    /\ \E err \in BOOLEAN, d \in WaitDurations :
         /\ elapsed' = elapsed + d
         /\ calls' = Append(calls, Call("WaitDBInstanceAvailable",
                                        DBClusterMembers[i].DBInstanceIdentifier, "",
                                        "unset", err))
         /\ diags' = IF err
                     THEN "Error waiting for Neptune instance to become available"
                     ELSE diags
         /\ detail' = IF err THEN DBClusterMembers[i].DBInstanceIdentifier ELSE detail
         /\ i' = i + 1
         /\ IF i' <= Len(DBClusterMembers)
            THEN pc' = "wait" /\ UNCHANGED <<tfstate, wrote>>
            ELSE /\ pc' = "done"
                 /\ IF diags' = "none"
                    THEN tfstate' = CreateState(calls') /\ wrote' = TRUE
                    ELSE UNCHANGED <<tfstate, wrote>>
    /\ UNCHANGED <<Plan, DBClusterMembers, lastStatus>>

NeptuneRebootCreateWait ==
    /\ resource = "neptune_reboot" /\ op = "Create" /\ pc = "wait"
    /\ \E err \in BOOLEAN, d \in WaitDurations :
         /\ elapsed' = elapsed + d
         /\ calls' = Append(calls, Call("WaitDBInstanceAvailable",
                                        DBClusterMembers[i].DBInstanceIdentifier, "",
                                        "unset", err))
         /\ IF err
            THEN FailNaming("Error waiting for Neptune instance to become available",
                            DBClusterMembers[i].DBInstanceIdentifier)
                 /\ UNCHANGED <<i, tfstate, wrote>>
            ELSE /\ i' = i + 1
                 /\ UNCHANGED <<diags, detail>>
                 /\ IF i' <= Len(DBClusterMembers)
                    THEN pc' = "wait" /\ UNCHANGED <<tfstate, wrote>>
                    ELSE /\ tfstate' = CreateState(calls')
                         /\ wrote' = TRUE
                         /\ pc' = "done"
    /\ UNCHANGED <<Plan, DBClusterMembers, lastStatus>>

\* -------------------------------------------------- neptune_reboot, Update
\* region handling and DescribeDBClusters; an empty member list skips both
\* loops and falls through to the timestamp and resp.State.Set
NeptuneRebootUpdateDescribe ==
    /\ resource = "neptune_reboot" /\ op = "Update" /\ pc = "describe"
    /\ \E cfg \in ConfigOutcomes, r \in TopologyResponses :
         IF cfg = "region_err"
         THEN /\ Fail("Unable to load AWS SDK config")
              /\ UNCHANGED <<calls, lastStatus, DBClusterMembers, i, tfstate, wrote>>
         ELSE /\ calls' = Append(calls, Call("DescribeDBClusters", ident, "", "unset", r.err))
              /\ lastStatus' = DescribeReport(r)
              /\ IF r.err
                 THEN Fail("Error describing Neptune cluster")
                      /\ UNCHANGED <<DBClusterMembers, i, tfstate, wrote>>
                 ELSE IF Len(r.DBClusters) = 0
                 THEN FailNaming("Neptune cluster not found", ident)
                      /\ UNCHANGED <<DBClusterMembers, i, tfstate, wrote>>
                 ELSE LET instances == r.DBClusters[1].DBClusterMembers
                      IN  /\ DBClusterMembers' = instances
                          /\ i' = 1
                          /\ UNCHANGED <<diags, detail>>
                          /\ IF i' <= Len(instances)
                             THEN pc' = "reboot" /\ UNCHANGED <<tfstate, wrote>>
                             ELSE /\ tfstate' = UpdateState(calls')
                                  /\ wrote' = TRUE
                                  /\ pc' = "done"
    /\ UNCHANGED <<Plan, elapsed>>

NeptuneRebootUpdateReboot ==
    /\ resource = "neptune_reboot" /\ op = "Update" /\ pc = "reboot"
    /\ \E err \in BOOLEAN :
         /\ calls' = Append(calls, Call("RebootDBInstance",
                                        DBClusterMembers[i].DBInstanceIdentifier, "",
                                        "unset", err))
         /\ IF err
            THEN FailNaming("Error rebooting Neptune instance", DBClusterMembers[i].DBInstanceIdentifier) /\ i' = i
            ELSE /\ UNCHANGED <<diags, detail>>
                 /\ IF i + 1 <= Len(DBClusterMembers)
                    THEN i' = i + 1 /\ pc' = "reboot"
                    ELSE i' = 1 /\ pc' = "wait"
    /\ UNCHANGED <<Plan, elapsed, DBClusterMembers, lastStatus, tfstate, wrote>>

\* the wait loop with a second try: a member whose wait failed is waited
\* for once more before the handler gives up
NeptuneRebootUpdateWait_SecondTry ==
    /\ resource = "neptune_reboot" /\ op = "Update" /\ pc = "wait"
    /\ \E err \in BOOLEAN, d \in WaitDurations :
         /\ elapsed' = elapsed + d
         /\ calls' = Append(calls, Call("WaitDBInstanceAvailable",
                                        DBClusterMembers[i].DBInstanceIdentifier, "",
                                        "unset", err))
         /\ IF err /\ ~calls[Len(calls)].err
            THEN pc' = "wait" /\ UNCHANGED <<diags, detail, i, tfstate, wrote>>
            ELSE IF err
            THEN FailNaming("Error waiting for Neptune instance to become available",
                            DBClusterMembers[i].DBInstanceIdentifier)
                 /\ UNCHANGED <<i, tfstate, wrote>>
            ELSE /\ i' = i + 1
                 /\ UNCHANGED <<diags, detail>>
                 /\ IF i' <= Len(DBClusterMembers)
                    THEN pc' = "wait" /\ UNCHANGED <<tfstate, wrote>>
                    ELSE /\ tfstate' = UpdateState(calls')
                         /\ wrote' = TRUE
                         /\ pc' = "done"
    /\ UNCHANGED <<Plan, DBClusterMembers, lastStatus>>


NeptuneRebootUpdateWait ==
    /\ resource = "neptune_reboot" /\ op = "Update" /\ pc = "wait"
    /\ \E err \in BOOLEAN, d \in WaitDurations :
         /\ elapsed' = elapsed + d
         /\ calls' = Append(calls, Call("WaitDBInstanceAvailable",
                                        DBClusterMembers[i].DBInstanceIdentifier, "",
                                        "unset", err))
         /\ IF err
            THEN FailNaming("Error waiting for Neptune instance to become available",
                            DBClusterMembers[i].DBInstanceIdentifier)
                 /\ UNCHANGED <<i, tfstate, wrote>>
            ELSE /\ i' = i + 1
                 /\ UNCHANGED <<diags, detail>>
                 /\ IF i' <= Len(DBClusterMembers)
                    THEN pc' = "wait" /\ UNCHANGED <<tfstate, wrote>>
                    ELSE /\ tfstate' = UpdateState(calls')
                         /\ wrote' = TRUE
                         /\ pc' = "done"
    /\ UNCHANGED <<Plan, DBClusterMembers, lastStatus>>

\* ---------------------------------------------------------- neptune_modify

\* region handling and ModifyDBCluster; the polling loop starts at i = 0
\* the modify step with one retry: a first failed ModifyDBCluster is
\* issued again
NeptuneModifyCreateModify_Retry ==
    /\ resource = "neptune_modify" /\ op = "Create" /\ pc = "modify"
    /\ \E cfg \in ConfigOutcomes, err \in BOOLEAN :
         IF cfg = "region_err"
         THEN Fail("Unable to load AWS SDK config")
              /\ UNCHANGED <<calls, i, tfstate, wrote>>
         ELSE /\ calls' = Append(calls, Call("ModifyDBCluster", ident, "", "unset", err))
              /\ IF err /\ Len(calls) = 0
                 THEN pc' = "modify"
                      /\ UNCHANGED <<diags, detail, i, tfstate, wrote>>
                 ELSE IF err
                 THEN Fail("Error modifying Neptune cluster")
                      /\ UNCHANGED <<i, tfstate, wrote>>
                 ELSE /\ i' = 0
                      /\ UNCHANGED <<diags, detail>>
                      /\ pc' = "poll"
                      /\ UNCHANGED <<tfstate, wrote>>
    /\ UNCHANGED <<Plan, elapsed, DBClusterMembers, lastStatus>>

NeptuneModifyCreateModify ==
    /\ resource = "neptune_modify" /\ op = "Create" /\ pc = "modify"
    /\ \E cfg \in ConfigOutcomes, err \in BOOLEAN :
         IF cfg = "region_err"
         THEN Fail("Unable to load AWS SDK config")
              /\ UNCHANGED <<calls, i, tfstate, wrote>>
         ELSE /\ calls' = Append(calls, Call("ModifyDBCluster", ident, "", "unset", err))
              /\ IF err
                 THEN Fail("Error modifying Neptune cluster")
                      /\ UNCHANGED <<i, tfstate, wrote>>
                 ELSE /\ i' = 0
                      /\ UNCHANGED <<diags, detail>>
                      /\ IF i' < maxAttempts
                         THEN pc' = "poll" /\ UNCHANGED <<tfstate, wrote>>
                         ELSE /\ tfstate' = CreateState(calls')
                              /\ wrote' = TRUE
                              /\ pc' = "done"
    /\ UNCHANGED <<Plan, elapsed, DBClusterMembers, lastStatus>>

\* the loop body giving up one attempt early
NeptuneModifyCreatePollStep_OneShort(result, k) ==
    IF result.err THEN "error"
    ELSE IF Len(result.DBClusters) > 0 /\ result.DBClusters[1].Status = "available"
    THEN "break"
    ELSE IF k = maxAttempts - 2 THEN "timeout"
    ELSE "sleep"

\* the loop body treating a describe error like a status that is not yet
\* available
NeptuneModifyCreatePollStep_Retry(result, k) ==
    IF ~result.err /\ Len(result.DBClusters) > 0
        /\ result.DBClusters[1].Status = "available"
    THEN "break"
    ELSE IF k = maxAttempts - 1 THEN "timeout"
    ELSE "sleep"

\* the body of the polling loop after the describe call returned, at loop
\* index k: return on error, break on available, return on the last attempt,
\* otherwise sleep
\* the loop body without the test of the last attempt: after the 60th
\* describe the loop sleeps and ends, and the handler goes on to write
NeptuneModifyCreatePollStep_NoTimeout(result, k) ==
    IF result.err THEN "error"
    ELSE IF Len(result.DBClusters) > 0 /\ result.DBClusters[1].Status = "available"
    THEN "break"
    ELSE "sleep"

\* the loop body without the break: a cluster seen available is polled on
\* until the last attempt
NeptuneModifyCreatePollStep_NoBreak(result, k) ==
    IF result.err THEN "error"
    ELSE IF k = maxAttempts - 1
    THEN IF Len(result.DBClusters) > 0 /\ result.DBClusters[1].Status = "available"
         THEN "break"
         ELSE "timeout"
    ELSE "sleep"

\* the loop body with a test of the result list: an empty list ends the
\* wait at once
NeptuneModifyCreatePollStep_EmptyEnds(result, k) ==
    IF result.err THEN "error"
    ELSE IF Len(result.DBClusters) = 0 THEN "timeout"
    ELSE IF result.DBClusters[1].Status = "available" THEN "break"
    ELSE IF k = maxAttempts - 1 THEN "timeout"
    ELSE "sleep"

NeptuneModifyCreatePollStep(result, k) ==
    IF result.err THEN "error"
    ELSE IF Len(result.DBClusters) > 0 /\ result.DBClusters[1].Status = "available"
    THEN "break"
    ELSE IF k = maxAttempts - 1 THEN "timeout"
    ELSE "sleep"

\* one DescribeDBClusters of the polling loop and what follows it up to the
\* sleep: error, available (break, timestamp, resp.State.Set), last attempt
NeptuneModifyCreatePoll ==
    /\ resource = "neptune_modify" /\ op = "Create" /\ pc = "poll"
    /\ \E result \in StatusResponses :
         /\ calls' = Append(calls, Call("DescribeDBClusters", ident, "", "unset", result.err))
         /\ lastStatus' = IF result.err THEN "error"
                          ELSE IF Len(result.DBClusters) = 0 THEN "empty"
                          ELSE result.DBClusters[1].Status
         /\ LET step == NeptuneModifyCreatePollStep(result, i)
            IN  IF step = "error"
                THEN Fail("Error describing Neptune cluster")
                     /\ UNCHANGED <<tfstate, wrote>>
                ELSE IF step = "break"
                THEN /\ tfstate' = CreateState(calls')
                     /\ wrote' = TRUE
                     /\ pc' = "done"
                     /\ UNCHANGED <<diags, detail>>
                ELSE IF step = "timeout"
                THEN Fail("Timeout waiting for Neptune cluster")
                     /\ UNCHANGED <<tfstate, wrote>>
                ELSE /\ pc' = "sleep"
                     /\ UNCHANGED <<diags, detail>>
                     /\ UNCHANGED <<tfstate, wrote>>
    /\ UNCHANGED <<Plan, elapsed, DBClusterMembers, i>>

\* time.Sleep(30 * time.Second), i++ and the loop condition
\* a loop that sleeps after the attempt and again before the next one
NeptuneModifyCreateSleep_Twice ==
    /\ resource = "neptune_modify" /\ op = "Create" /\ pc = "sleep"
    /\ calls' = calls \o <<Call("Sleep", "", "", "unset", FALSE),
                           Call("Sleep", "", "", "unset", FALSE)>>
    /\ elapsed' = elapsed + 2 * SleepSeconds
    /\ i' = i + 1
    /\ IF i' < maxAttempts
       THEN pc' = "poll" /\ UNCHANGED <<tfstate, wrote>>
       ELSE /\ tfstate' = CreateState(calls')
            /\ wrote' = TRUE
            /\ pc' = "done"
    /\ UNCHANGED <<Plan, DBClusterMembers, lastStatus, diags, detail>>

NeptuneModifyCreateSleep ==
    /\ resource = "neptune_modify" /\ op = "Create" /\ pc = "sleep"
    /\ calls' = Append(calls, Call("Sleep", "", "", "unset", FALSE))
    /\ elapsed' = elapsed + SleepSeconds
    /\ i' = i + 1
    /\ IF i' < maxAttempts
       THEN pc' = "poll" /\ UNCHANGED <<tfstate, wrote>>
       ELSE /\ tfstate' = CreateState(calls')
            /\ wrote' = TRUE
            /\ pc' = "done"
    /\ UNCHANGED <<Plan, DBClusterMembers, lastStatus, diags, detail>>


\* region handling and ModifyDBCluster; the polling loop starts at i = 0
NeptuneModifyUpdateModify ==
    /\ resource = "neptune_modify" /\ op = "Update" /\ pc = "modify"
    /\ \E cfg \in ConfigOutcomes, err \in BOOLEAN :
         IF cfg = "region_err"
         THEN Fail("Unable to load AWS SDK config")
              /\ UNCHANGED <<calls, i, tfstate, wrote>>
         ELSE /\ calls' = Append(calls, Call("ModifyDBCluster", ident, "", "unset", err))
              /\ IF err
                 THEN Fail("Error modifying Neptune cluster")
                      /\ UNCHANGED <<i, tfstate, wrote>>
                 ELSE /\ i' = 0
                      /\ UNCHANGED <<diags, detail>>
                      /\ IF i' < maxAttempts
                         THEN pc' = "poll" /\ UNCHANGED <<tfstate, wrote>>
                         ELSE /\ tfstate' = UpdateState(calls')
                              /\ wrote' = TRUE
                              /\ pc' = "done"
    /\ UNCHANGED <<Plan, elapsed, DBClusterMembers, lastStatus>>

\* the body of the polling loop after the describe call returned, at loop
\* index k: return on error, break on available, return on the last attempt,
\* otherwise sleep
NeptuneModifyUpdatePollStep(result, k) ==
    IF result.err THEN "error"
    ELSE IF Len(result.DBClusters) > 0 /\ result.DBClusters[1].Status = "available"
    THEN "break"
    ELSE IF k = maxAttempts - 1 THEN "timeout"
    ELSE "sleep"

\* one DescribeDBClusters of the polling loop and what follows it up to the
\* sleep: error, available (break, timestamp, resp.State.Set), last attempt
NeptuneModifyUpdatePoll ==
    /\ resource = "neptune_modify" /\ op = "Update" /\ pc = "poll"
    /\ \E result \in StatusResponses :
         /\ calls' = Append(calls, Call("DescribeDBClusters", ident, "", "unset", result.err))
         /\ lastStatus' = IF result.err THEN "error"
                          ELSE IF Len(result.DBClusters) = 0 THEN "empty"
                          ELSE result.DBClusters[1].Status
         /\ LET step == NeptuneModifyUpdatePollStep(result, i)
            IN  IF step = "error"
                THEN Fail("Error describing Neptune cluster")
                     /\ UNCHANGED <<tfstate, wrote>>
                ELSE IF step = "break"
                THEN /\ tfstate' = UpdateState(calls')
                     /\ wrote' = TRUE
                     /\ pc' = "done"
                     /\ UNCHANGED <<diags, detail>>
                ELSE IF step = "timeout"
                THEN Fail("Timeout waiting for Neptune cluster")
                     /\ UNCHANGED <<tfstate, wrote>>
                ELSE /\ pc' = "sleep"
                     /\ UNCHANGED <<diags, detail>>
                     /\ UNCHANGED <<tfstate, wrote>>
    /\ UNCHANGED <<Plan, elapsed, DBClusterMembers, i>>

\* time.Sleep(30 * time.Second), i++ and the loop condition
NeptuneModifyUpdateSleep ==
    /\ resource = "neptune_modify" /\ op = "Update" /\ pc = "sleep"
    /\ calls' = Append(calls, Call("Sleep", "", "", "unset", FALSE))
    /\ elapsed' = elapsed + SleepSeconds
    /\ i' = i + 1
    /\ IF i' < maxAttempts
       THEN pc' = "poll" /\ UNCHANGED <<tfstate, wrote>>
       ELSE /\ tfstate' = UpdateState(calls')
            /\ wrote' = TRUE
            /\ pc' = "done"
    /\ UNCHANGED <<Plan, DBClusterMembers, lastStatus, diags, detail>>


\* ----------------------------------------------------------- aurora_modify

AuroraModifyCreateModify ==
    /\ resource = "aurora_modify" /\ op = "Create" /\ pc = "modify"
    /\ \E cfg \in ConfigOutcomes, err \in BOOLEAN :
         IF cfg = "region_err"
         THEN Fail("Unable to load AWS SDK config") /\ calls' = calls
         ELSE /\ calls' = Append(calls, Call("ModifyDBCluster", ident, "", "unset", err))
              /\ IF err
                 THEN Fail("Error modifying Aurora cluster")
                 ELSE pc' = "wait" /\ UNCHANGED <<diags, detail>>
    /\ UNCHANGED <<Plan, elapsed, DBClusterMembers, i, lastStatus, tfstate, wrote>>

AuroraModifyCreateWait ==
    /\ resource = "aurora_modify" /\ op = "Create" /\ pc = "wait"
    /\ \E err \in BOOLEAN, d \in WaitDurations :
         /\ elapsed' = elapsed + d
         /\ calls' = Append(calls, Call("WaitDBClusterAvailable", ident, "", "unset", err))
         /\ IF err
            THEN Fail("Error waiting for Aurora cluster to become available")
                 /\ UNCHANGED <<tfstate, wrote>>
            ELSE /\ tfstate' = CreateState(calls')
                 /\ wrote' = TRUE
                 /\ pc' = "done"
                 /\ UNCHANGED <<diags, detail>>
    /\ UNCHANGED <<Plan, DBClusterMembers, i, lastStatus>>

AuroraModifyUpdateModify ==
    /\ resource = "aurora_modify" /\ op = "Update" /\ pc = "modify"
    /\ \E cfg \in ConfigOutcomes, err \in BOOLEAN :
         IF cfg = "region_err"
         THEN Fail("Unable to load AWS SDK config") /\ calls' = calls
         ELSE /\ calls' = Append(calls, Call("ModifyDBCluster", ident, "", "unset", err))
              /\ IF err
                 THEN Fail("Error modifying Aurora cluster")
                 ELSE pc' = "wait" /\ UNCHANGED <<diags, detail>>
    /\ UNCHANGED <<Plan, elapsed, DBClusterMembers, i, lastStatus, tfstate, wrote>>

AuroraModifyUpdateWait ==
    /\ resource = "aurora_modify" /\ op = "Update" /\ pc = "wait"
    /\ \E err \in BOOLEAN, d \in WaitDurations :
         /\ elapsed' = elapsed + d
         /\ calls' = Append(calls, Call("WaitDBClusterAvailable", ident, "", "unset", err))
         /\ IF err
            THEN Fail("Error waiting for Aurora cluster to become available")
                 /\ UNCHANGED <<tfstate, wrote>>
            ELSE /\ tfstate' = UpdateState(calls')
                 /\ wrote' = TRUE
                 /\ pc' = "done"
                 /\ UNCHANGED <<diags, detail>>
    /\ UNCHANGED <<Plan, DBClusterMembers, i, lastStatus>>

\* -------------------------------------------------------------- rds_modify

RDSModifyCreateModify ==
    /\ resource = "rds_modify" /\ op = "Create" /\ pc = "modify"
    /\ \E cfg \in ConfigOutcomes, err \in BOOLEAN :
         IF cfg = "region_err"
         THEN Fail("Unable to load AWS SDK config") /\ calls' = calls
         ELSE /\ calls' = Append(calls, Call("ModifyDBInstance", ident, "", "unset", err))
              /\ IF err
                 THEN Fail("Error modifying RDS instance")
                 ELSE pc' = "wait" /\ UNCHANGED <<diags, detail>>
    /\ UNCHANGED <<Plan, elapsed, DBClusterMembers, i, lastStatus, tfstate, wrote>>

\* the waiter error reported without a return: the timestamp is written too
RDSModifyCreateWait_WritesOnError ==
    /\ resource = "rds_modify" /\ op = "Create" /\ pc = "wait"
    /\ \E err \in BOOLEAN, d \in WaitDurations :
         /\ elapsed' = elapsed + d
         /\ calls' = Append(calls, Call("WaitDBInstanceAvailable", ident, "", "unset", err))
         /\ diags' = IF err
                     THEN "Error waiting for RDS instance to become available"
                     ELSE diags
         /\ detail' = detail
         /\ tfstate' = CreateState(calls')
         /\ wrote' = TRUE
         /\ pc' = "done"
    /\ UNCHANGED <<Plan, DBClusterMembers, i, lastStatus>>

RDSModifyCreateWait ==
    /\ resource = "rds_modify" /\ op = "Create" /\ pc = "wait"
    /\ \E err \in BOOLEAN, d \in WaitDurations :
         /\ elapsed' = elapsed + d
         /\ calls' = Append(calls, Call("WaitDBInstanceAvailable", ident, "", "unset", err))
         /\ IF err
            THEN Fail("Error waiting for RDS instance to become available")
                 /\ UNCHANGED <<tfstate, wrote>>
            ELSE /\ tfstate' = CreateState(calls')
                 /\ wrote' = TRUE
                 /\ pc' = "done"
                 /\ UNCHANGED <<diags, detail>>
    /\ UNCHANGED <<Plan, DBClusterMembers, i, lastStatus>>

RDSModifyUpdateModify ==
    /\ resource = "rds_modify" /\ op = "Update" /\ pc = "modify"
    /\ \E cfg \in ConfigOutcomes, err \in BOOLEAN :
         IF cfg = "region_err"
         THEN Fail("Unable to load AWS SDK config") /\ calls' = calls
         ELSE /\ calls' = Append(calls, Call("ModifyDBInstance", ident, "", "unset", err))
              /\ IF err
                 THEN Fail("Error modifying RDS instance")
                 ELSE pc' = "wait" /\ UNCHANGED <<diags, detail>>
    /\ UNCHANGED <<Plan, elapsed, DBClusterMembers, i, lastStatus, tfstate, wrote>>

RDSModifyUpdateWait ==
    /\ resource = "rds_modify" /\ op = "Update" /\ pc = "wait"
    /\ \E err \in BOOLEAN, d \in WaitDurations :
         /\ elapsed' = elapsed + d
         /\ calls' = Append(calls, Call("WaitDBInstanceAvailable", ident, "", "unset", err))
         /\ IF err
            THEN Fail("Error waiting for RDS instance to become available")
                 /\ UNCHANGED <<tfstate, wrote>>
            ELSE /\ tfstate' = UpdateState(calls')
                 /\ wrote' = TRUE
                 /\ pc' = "done"
                 /\ UNCHANGED <<diags, detail>>
    /\ UNCHANGED <<Plan, DBClusterMembers, i, lastStatus>>

\* -------------------------------------------------------------- rds_reboot

RDSRebootCreateReboot ==
    /\ resource = "rds_reboot" /\ op = "Create" /\ pc = "reboot"
    /\ \E cfg \in ConfigOutcomes, err \in BOOLEAN :
         IF cfg = "region_err"
         THEN Fail("Unable to load AWS SDK config") /\ calls' = calls
         ELSE /\ calls' = Append(calls, Call("RebootDBInstance", ident, "", ForceFailover, err))
              /\ IF err
                 THEN Fail("Error rebooting RDS instance")
                 ELSE pc' = "wait" /\ UNCHANGED <<diags, detail>>
    /\ UNCHANGED <<Plan, elapsed, DBClusterMembers, i, lastStatus, tfstate, wrote>>

RDSRebootCreateWait ==
    /\ resource = "rds_reboot" /\ op = "Create" /\ pc = "wait"
    /\ \E err \in BOOLEAN, d \in WaitDurations :
         /\ elapsed' = elapsed + d
         /\ calls' = Append(calls, Call("WaitDBInstanceAvailable", ident, "", "unset", err))
         /\ IF err
            THEN Fail("Error waiting for RDS instance to become available")
                 /\ UNCHANGED <<tfstate, wrote>>
            ELSE /\ tfstate' = CreateState(calls')
                 /\ wrote' = TRUE
                 /\ pc' = "done"
                 /\ UNCHANGED <<diags, detail>>
    /\ UNCHANGED <<Plan, DBClusterMembers, i, lastStatus>>

RDSRebootUpdateReboot ==
    /\ resource = "rds_reboot" /\ op = "Update" /\ pc = "reboot"
    /\ \E cfg \in ConfigOutcomes, err \in BOOLEAN :
         IF cfg = "region_err"
         THEN Fail("Unable to load AWS SDK config") /\ calls' = calls
         ELSE /\ calls' = Append(calls, Call("RebootDBInstance", ident, "", ForceFailover, err))
              /\ IF err
                 THEN Fail("Error rebooting RDS instance")
                 ELSE pc' = "wait" /\ UNCHANGED <<diags, detail>>
    /\ UNCHANGED <<Plan, elapsed, DBClusterMembers, i, lastStatus, tfstate, wrote>>

RDSRebootUpdateWait ==
    /\ resource = "rds_reboot" /\ op = "Update" /\ pc = "wait"
    /\ \E err \in BOOLEAN, d \in WaitDurations :
         /\ elapsed' = elapsed + d
         /\ calls' = Append(calls, Call("WaitDBInstanceAvailable", ident, "", "unset", err))
         /\ IF err
            THEN Fail("Error waiting for RDS instance to become available")
                 /\ UNCHANGED <<tfstate, wrote>>
            ELSE /\ tfstate' = UpdateState(calls')
                 /\ wrote' = TRUE
                 /\ pc' = "done"
                 /\ UNCHANGED <<diags, detail>>
    /\ UNCHANGED <<Plan, DBClusterMembers, i, lastStatus>>

\* ------------------------------------------------------------------- Read
\* region handling and one describe call; the prior state is written back
ReadApi(res) ==
    IF res \in {"rds_modify", "rds_reboot"} THEN "DescribeDBInstances"
    ELSE "DescribeDBClusters"

ReadError(res) ==
    IF res \in {"aurora_reboot", "aurora_modify"} THEN "Error reading Aurora cluster"
    ELSE IF res \in {"neptune_reboot", "neptune_modify"} THEN "Error reading Neptune cluster"
    ELSE "Error reading RDS instance"

\* the describe result as Read sees it: error, empty list or one entry
ReadResponses ==
    {[err |-> TRUE, DBClusters |-> <<>>], [err |-> FALSE, DBClusters |-> <<>>],
     [err |-> FALSE, DBClusters |-> <<[Status |-> "available"]>>]}

\* a Read that refreshes the timestamp when it writes the state back
Read_Refreshes ==
    /\ op = "Read" /\ pc = "read"
    /\ \E cfg \in ConfigOutcomes, r \in ReadResponses :
         IF cfg = "region_err"
         THEN Fail("Unable to load AWS SDK config")
              /\ UNCHANGED <<calls, lastStatus, wrote>>
         ELSE /\ calls' = Append(calls, Call(ReadApi(resource), tfstate.identifier,
                                             "", "unset", r.err))
              /\ lastStatus' = DescribeReport(r)
              /\ IF r.err
                 THEN Fail(ReadError(resource)) /\ wrote' = wrote
                 ELSE /\ wrote' = TRUE
                      /\ pc' = "done"
                      /\ UNCHANGED <<diags, detail>>
    /\ tfstate' = IF wrote' THEN [tfstate EXCEPT !.time = Now(calls')] ELSE tfstate
    /\ UNCHANGED <<Plan, elapsed, DBClusterMembers, i>>

Read ==
    /\ op = "Read" /\ pc = "read"
    /\ \E cfg \in ConfigOutcomes, r \in ReadResponses :
         IF cfg = "region_err"
         THEN Fail("Unable to load AWS SDK config")
              /\ UNCHANGED <<calls, lastStatus, wrote>>
         ELSE /\ calls' = Append(calls, Call(ReadApi(resource), tfstate.identifier,
                                             "", "unset", r.err))
              /\ lastStatus' = DescribeReport(r)
              /\ IF r.err
                 THEN Fail(ReadError(resource)) /\ wrote' = wrote
                 ELSE /\ wrote' = TRUE
                      /\ pc' = "done"
                      /\ UNCHANGED <<diags, detail>>
    /\ tfstate' = tfstate
    /\ UNCHANGED <<Plan, elapsed, DBClusterMembers, i>>

\* ----------------------------------------------------------------- Delete
\* the handler does nothing; Terraform then removes the resource from state
\* a Delete that checks for the resource first, as Read does
Delete_Describes ==
    /\ op = "Delete" /\ pc = "delete"
    /\ \E err \in BOOLEAN :
         /\ calls' = Append(calls, Call(ReadApi(resource), ident, "", "unset", err))
         /\ IF err
            THEN Fail(ReadError(resource)) /\ tfstate' = tfstate
            ELSE /\ pc' = "done"
                 /\ tfstate' = NoState
                 /\ UNCHANGED <<diags, detail>>
    /\ UNCHANGED <<Plan, elapsed, DBClusterMembers, i, lastStatus, wrote>>

Delete ==
    /\ op = "Delete" /\ pc = "delete"
    /\ pc' = "done"
    /\ tfstate' = NoState
    /\ UNCHANGED <<Plan, elapsed, DBClusterMembers, i, calls, lastStatus, diags, detail, wrote>>

\* ------------------------------------------------------------- ImportState
\* resource.ImportStatePassthroughID: the import identifier is set on the
\* identifier attribute; every other attribute of the state stays null
ImportState ==
    /\ op = "Import" /\ pc = "import"
    /\ tfstate' = [NoState EXCEPT !.present = TRUE, !.identifier = ident]
    /\ wrote' = TRUE
    /\ pc' = "done"
    /\ UNCHANGED <<Plan, elapsed, DBClusterMembers, i, calls, lastStatus, diags, detail>>

Next ==
    \/ BeginCreate
    \/ BeginImport
    \/ BeginUpdate
    \/ BeginRead
    \/ BeginDelete
    \/ AuroraRebootCreateDescribe
    \/ AuroraRebootCreateFailover
    \/ AuroraRebootCreateReboot
    \/ AuroraRebootCreateWait
    \/ AuroraRebootUpdateDescribe
    \/ AuroraRebootUpdateFailover
    \/ AuroraRebootUpdateReboot
    \/ AuroraRebootUpdateWait
    \/ NeptuneRebootCreateDescribe
    \/ NeptuneRebootCreateReboot
    \/ NeptuneRebootCreateWait
    \/ NeptuneRebootUpdateDescribe
    \/ NeptuneRebootUpdateReboot
    \/ NeptuneRebootUpdateWait
    \/ NeptuneModifyCreateModify
    \/ NeptuneModifyCreatePoll
    \/ NeptuneModifyCreateSleep
    \/ NeptuneModifyUpdateModify
    \/ NeptuneModifyUpdatePoll
    \/ NeptuneModifyUpdateSleep
    \/ AuroraModifyCreateModify
    \/ AuroraModifyCreateWait
    \/ AuroraModifyUpdateModify
    \/ AuroraModifyUpdateWait
    \/ RDSModifyCreateModify
    \/ RDSModifyCreateWait
    \/ RDSModifyUpdateModify
    \/ RDSModifyUpdateWait
    \/ RDSRebootCreateReboot
    \/ RDSRebootCreateWait
    \/ RDSRebootUpdateReboot
    \/ RDSRebootUpdateWait
    \/ Read
    \/ Delete
    \/ ImportState

Spec == Init /\ [][Next]_vars

\* a handler is between its entry and its return
Running == pc \notin {"idle", "done"}

\* the running handler takes its next step: the API call or native wait
\* it is blocked in returns
HandlerStep == Running /\ Next

\* termination does not depend on the identifier: one identifier is enough
InitLive == Init /\ ident = "db-1"

\* every API call and every native wait returns
SpecLive == InitLive /\ [][Next]_vars /\ WF_vars(HandlerStep)

\* ====================================================== concurrent handlers
\* Two Create handlers of the Neptune reboot resource run at the same time
\* against different clusters (Terraform applies independent resources in
\* parallel).  Each invocation has its own data, client, instances and
\* diagnostics; r.client is the one field both read.  What the API answers
\* to an invocation is fixed beforehand by its script, so that the run can
\* be compared with the run of the same invocation alone.
MaxConcMembers == 2

Procs == {1, 2}

ConcClusters == <<"db-1", "db-2">>

ConcRegions == <<"us-east-1", "eu-west-1">>

\* the members of the cluster of invocation p, n of them
ConcMembers(p, n) ==
    [k \in 1..n |-> [DBInstanceIdentifier |-> AllInstanceIds[(p - 1) * MaxConcMembers + k],
                     IsClusterWriter |-> (k = 1)]]

\* the plan of invocation p and the answers it will get: the region
\* attribute, the member list of its cluster and which of its calls fails
Scripts(p) ==
    [cluster : {ConcClusters[p]},
     Region : {"null", ConcRegions[p]},
     members : {ConcMembers(p, n) : n \in 0..MaxConcMembers},
     failAt : 0..(1 + 2 * MaxConcMembers)]

ConcCall(client, api, id, err) == [client |-> client, api |-> api, id |-> id, err |-> err]

\* the state of an invocation at its entry
ConcEntry(s) ==
    [script |-> s, pc |-> "client", client |-> "nil", instances |-> <<>>, i |-> 0,
     calls |-> <<>>, diags |-> "none", wrote |-> FALSE]

\* the sequential variables of the single-instance model, at rest
Handler == <<resource, ident, op, pc, ForceFailover, DBClusterMembers, i, calls,
             lastStatus, diags, detail, elapsed, tfstate, wrote, opCount, lambda>>

InitConc ==
    /\ resource = "neptune_reboot"
    /\ ident = ConcClusters[1]
    /\ op = "none"
    /\ pc = "idle"
    /\ ForceFailover = "unset"
    /\ DBClusterMembers = <<>>
    /\ i = 0
    /\ calls = <<>>
    /\ lastStatus = "none"
    /\ diags = "none"
    /\ detail = ""
    /\ elapsed = 0
    /\ tfstate = NoState
    /\ wrote = FALSE
    /\ opCount = 0
    /\ rclient = "default"
    /\ lambda = <<>>
    /\ \E s1 \in Scripts(1), s2 \in Scripts(2) :
         inv = <<ConcEntry(s1), ConcEntry(s2)>>

\* the error the script of the invocation gives to its next call
ConcErr(p) == Len(inv[p].calls) + 1 = inv[p].script.failAt

\* if !data.Region.IsNull() { client = neptune.NewFromConfig(awsCfg) }
\* else { client = r.client }, with the region client stored in r.client
ConcClient_StoresInResource(p) ==
    /\ inv[p].pc = "client"
    /\ IF inv[p].script.Region # "null"
       THEN /\ rclient' = inv[p].script.Region
            /\ inv' = [inv EXCEPT ![p].client = inv[p].script.Region,
                                  ![p].pc = "describe"]
       ELSE /\ rclient' = rclient
            /\ inv' = [inv EXCEPT ![p].client = rclient, ![p].pc = "describe"]
    /\ UNCHANGED Handler

\* if !data.Region.IsNull() { client = neptune.NewFromConfig(awsCfg) }
\* else { client = r.client }
ConcClient(p) ==
    /\ inv[p].pc = "client"
    /\ inv' = [inv EXCEPT ![p].client = IF inv[p].script.Region # "null"
                                        THEN inv[p].script.Region
                                        ELSE rclient,
                          ![p].pc = "describe"]
    /\ UNCHANGED <<Handler, rclient>>

\* client.DescribeDBClusters and the checks after it
ConcDescribe(p) ==
    /\ inv[p].pc = "describe"
    /\ LET err == ConcErr(p)
           m == inv[p].script.members
           c == ConcCall(inv[p].client, "DescribeDBClusters", inv[p].script.cluster, err)
       IN  inv' = [inv EXCEPT
                     ![p].calls = Append(@, c),
                     ![p].instances = IF err THEN @ ELSE m,
                     ![p].i = IF err THEN @ ELSE 1,
                     ![p].diags = IF err THEN "Error describing Neptune cluster"
                                  ELSE IF Len(m) = 0 THEN "No instances in cluster"
                                  ELSE @,
                     ![p].pc = IF err \/ Len(m) = 0 THEN "done" ELSE "reboot"]
    /\ UNCHANGED <<Handler, rclient>>

\* one pass of the reboot loop
ConcReboot(p) ==
    /\ inv[p].pc = "reboot"
    /\ LET err == ConcErr(p)
           k == inv[p].i
           c == ConcCall(inv[p].client, "RebootDBInstance",
                         inv[p].instances[k].DBInstanceIdentifier, err)
       IN  inv' = [inv EXCEPT
                     ![p].calls = Append(@, c),
                     ![p].diags = IF err THEN "Error rebooting Neptune instance" ELSE @,
                     ![p].i = IF err THEN @
                              ELSE IF k < Len(inv[p].instances) THEN k + 1 ELSE 1,
                     ![p].pc = IF err THEN "done"
                               ELSE IF k < Len(inv[p].instances) THEN "reboot"
                               ELSE "wait"]
    /\ UNCHANGED <<Handler, rclient>>

\* one pass of the wait loop; after the last pass, resp.State.Set
ConcWait(p) ==
    /\ inv[p].pc = "wait"
    /\ LET err == ConcErr(p)
           k == inv[p].i
           last == k = Len(inv[p].instances)
           c == ConcCall(inv[p].client, "WaitDBInstanceAvailable",
                         inv[p].instances[k].DBInstanceIdentifier, err)
       IN  inv' = [inv EXCEPT
                     ![p].calls = Append(@, c),
                     ![p].diags = IF err
                                  THEN "Error waiting for Neptune instance to become available"
                                  ELSE @,
                     ![p].i = IF err \/ last THEN @ ELSE k + 1,
                     ![p].wrote = ~err /\ last,
                     ![p].pc = IF err \/ last THEN "done" ELSE "wait"]
    /\ UNCHANGED <<Handler, rclient>>

NextConc ==
    \E p \in Procs :
        \/ ConcClient(p)
        \/ ConcDescribe(p)
        \/ ConcReboot(p)
        \/ ConcWait(p)

SpecConc == InitConc /\ [][NextConc]_vars

\* ============================================== execute_aws_lambda_function
\* The resource that invokes a Lambda function.  One resource instance goes
\* through Create / Import and then Read, Update, Delete; what the AWS SDK
\* answers to the invocation is chosen by the environment.
FunctionNames == {"fn-1", "fn-2"}

\* the status codes a payload can carry, around the limits of 200..299
StatusCodes == {0, 199, 200, 204, 299, 300, 500}

\* result.Payload: not JSON at all, or a JSON object whose statusCode is
\* absent, is a string, or is a number
Payloads ==
    {[json |-> FALSE, statusCode |-> "absent", n |-> 0],
     [json |-> TRUE, statusCode |-> "absent", n |-> 0],
     [json |-> TRUE, statusCode |-> "text", n |-> 0]}
    \cup {[json |-> TRUE, statusCode |-> "number", n |-> c] : c \in StatusCodes}

\* what config.LoadDefaultConfig and lambdaClient.Invoke give back: a
\* config error, an invocation error, or an InvokeOutput
LambdaResponses ==
    {[kind |-> k, Payload |-> [json |-> FALSE, statusCode |-> "absent", n |-> 0],
      FunctionError |-> FALSE] : k \in {"config_error", "invoke_error"}}
    \cup {[kind |-> "output", Payload |-> p, FunctionError |-> fe] :
            p \in Payloads, fe \in BOOLEAN}

\* json.Unmarshal([]byte(responsePayload), lrp) with
\* lrp *lambdaResultPayload{StatusCode int `json:"statusCode"`}
Unmarshal(p) ==
    IF ~p.json \/ p.statusCode = "text" THEN [err |-> TRUE, StatusCode |-> 0]
    ELSE IF p.statusCode = "absent" THEN [err |-> FALSE, StatusCode |-> 0]
    ELSE [err |-> FALSE, StatusCode |-> p.n]

\* executeLambdaFunction with a failed status reported by the flag alone
executeLambdaFunction_NoError(r) ==
    IF r.kind # "output" THEN [success |-> FALSE, err |-> TRUE]
    ELSE LET lrp == Unmarshal(r.Payload)
         IN  IF lrp.err THEN [success |-> FALSE, err |-> TRUE]
             ELSE [success |-> lrp.StatusCode >= 200 /\ lrp.StatusCode < 300
                                 /\ ~r.FunctionError,
                   err |-> FALSE]

\* executeLambdaFunction(ctx, functionName, region) (bool, error)
executeLambdaFunction(r) ==
    IF r.kind # "output" THEN [success |-> FALSE, err |-> TRUE]
    ELSE LET lrp == Unmarshal(r.Payload)
             success == lrp.StatusCode >= 200 /\ lrp.StatusCode < 300
                            /\ ~r.FunctionError
         IN  IF lrp.err THEN [success |-> FALSE, err |-> TRUE]
             ELSE IF ~success THEN [success |-> FALSE, err |-> TRUE]
             ELSE [success |-> success, err |-> FALSE]

\* no state, with null attributes
NoLambdaState ==
    [present |-> FALSE, id |-> "", function_name |-> "", execution_succeeded |-> "null"]

\* types.BoolValue(b)
BoolValue(b) == IF b THEN "true" ELSE "false"

NoResponse ==
    [kind |-> "none", Payload |-> [json |-> FALSE, statusCode |-> "absent", n |-> 0],
     FunctionError |-> FALSE]

\* the sequential and the concurrent variables, at rest
NotLambda == <<resource, ident, op, pc, ForceFailover, DBClusterMembers, i, calls,
               lastStatus, diags, detail, elapsed, tfstate, wrote, opCount,
               inv, rclient>>

InitLambda ==
    /\ resource = "neptune_reboot"
    /\ ident = "db-1"
    /\ op = "none"
    /\ pc = "idle"
    /\ ForceFailover = "unset"
    /\ DBClusterMembers = <<>>
    /\ i = 0
    /\ calls = <<>>
    /\ lastStatus = "none"
    /\ diags = "none"
    /\ detail = ""
    /\ elapsed = 0
    /\ tfstate = NoState
    /\ wrote = FALSE
    /\ opCount = 0
    /\ inv = <<>>
    /\ rclient = "default"
    /\ \E f \in FunctionNames :
         lambda = [op |-> "none", pc |-> "idle", function_name |-> f,
                   response |-> NoResponse, diags |-> "none", wrote |-> FALSE,
                   state |-> NoLambdaState, opCount |-> 0]

\* a handler of the resource is entered
LambdaBegin(o) ==
    /\ lambda.pc \in {"idle", "done"}
    /\ lambda.opCount < MaxOps
    /\ lambda.state.present = (o \notin {"Create", "Import"})
    /\ lambda' = [lambda EXCEPT !.op = o, !.pc = "run", !.response = NoResponse,
                                !.diags = "none", !.wrote = FALSE,
                                !.opCount = @ + 1]
    /\ UNCHANGED NotLambda

LambdaCreate ==
    /\ lambda.op = "Create" /\ lambda.pc = "run"
    /\ \E r \in LambdaResponses :
         LET res == executeLambdaFunction(r)
         IN  lambda' =
               IF res.err
               THEN [lambda EXCEPT !.response = r, !.pc = "done",
                                   !.diags = "Failed to execute AWS Lambda function"]
               ELSE [lambda EXCEPT !.response = r, !.pc = "done", !.wrote = TRUE,
                                   !.state = [present |-> TRUE,
                                              id |-> lambda.function_name,
                                              function_name |-> lambda.function_name,
                                              execution_succeeded |-> BoolValue(res.success)]]
    /\ UNCHANGED NotLambda

LambdaUpdate ==
    /\ lambda.op = "Update" /\ lambda.pc = "run"
    /\ \E r \in LambdaResponses :
         LET res == executeLambdaFunction(r)
         IN  lambda' =
               IF res.err
               THEN [lambda EXCEPT !.response = r, !.pc = "done",
                                   !.diags = "Failed to execute AWS Lambda function"]
               ELSE [lambda EXCEPT !.response = r, !.pc = "done", !.wrote = TRUE,
                                   !.state = [present |-> TRUE,
                                              id |-> lambda.state.id,
                                              function_name |-> lambda.function_name,
                                              execution_succeeded |-> BoolValue(res.success)]]
    /\ UNCHANGED NotLambda

\* the prior state is written back
LambdaRead ==
    /\ lambda.op = "Read" /\ lambda.pc = "run"
    /\ lambda' = [lambda EXCEPT !.pc = "done", !.wrote = TRUE]
    /\ UNCHANGED NotLambda

\* the state is read and nothing else is done
LambdaDelete ==
    /\ lambda.op = "Delete" /\ lambda.pc = "run"
    /\ lambda' = [lambda EXCEPT !.pc = "done", !.state = NoLambdaState]
    /\ UNCHANGED NotLambda

\* resource.ImportStatePassthroughID(ctx, path.Root("id"), req, resp)
LambdaImportState ==
    /\ lambda.op = "Import" /\ lambda.pc = "run"
    /\ lambda' = [lambda EXCEPT !.pc = "done", !.wrote = TRUE,
                                !.state = [NoLambdaState EXCEPT
                                             !.present = TRUE,
                                             !.id = lambda.function_name]]
    /\ UNCHANGED NotLambda

NextLambda ==
    \/ \E o \in {"Create", "Import", "Read", "Update", "Delete"} : LambdaBegin(o)
    \/ LambdaCreate
    \/ LambdaUpdate
    \/ LambdaRead
    \/ LambdaDelete
    \/ LambdaImportState

SpecLambda == InitLambda /\ [][NextLambda]_vars

\* ================================================================ properties
CallsOf(api) == {k \in 1..Len(calls) : calls[k].api = api}

Count(api) == Cardinality(CallsOf(api))

NoCallFailed == \A k \in 1..Len(calls) : ~calls[k].err

Mutating == op \in {"Create", "Update"}

\* the handler's topology describe returned a cluster
TopologyRead ==
    /\ resource \in {"aurora_reboot", "neptune_reboot"}
    /\ Mutating
    /\ Len(calls) >= 1
    /\ ~calls[1].err
    /\ diags \notin {"Aurora cluster not found", "Neptune cluster not found"}

\* the issuing of mutation calls is over
Issued == pc \in {"wait", "done"}

\* the failover condition as the specification words it
FailoverSelected ==
    /\ Len(DBClusterMembers) >= 2
    /\ \E k \in 1..Len(DBClusterMembers) : ~DBClusterMembers[k].IsClusterWriter
    /\ ForceFailover = "true"

\* m[r] is the first member of m that is not the writer
FirstNonWriter(m, r) ==
    /\ r \in 1..Len(m)
    /\ ~m[r].IsClusterWriter
    /\ \A j \in 1..(r - 1) : m[j].IsClusterWriter

\* the API and the identifier of every call, in order
CallTrace == [k \in 1..Len(calls) |-> <<calls[k].api, calls[k].id>>]

\* C1: Aurora reboot (Create and Update), once its mutation calls are issued,
\* has issued exactly one FailoverDBCluster call and no RebootDBInstance call
\* if and only if the cluster has at least 2 members, some member is not the
\* writer and force_failover is true; the failover then targets the first
\* non-writer member in the order the describe call returned.
C1_FailoverIffSelected ==
    (resource = "aurora_reboot" /\ TopologyRead /\ Issued) =>
        /\ (Count("FailoverDBCluster") = 1 /\ Count("RebootDBInstance") = 0)
               <=> FailoverSelected
        /\ \A k \in CallsOf("FailoverDBCluster") :
               /\ calls[k].id = ident
               /\ \E r \in 1..Len(DBClusterMembers) :
                      /\ FirstNonWriter(DBClusterMembers, r)
                      /\ calls[k].target = DBClusterMembers[r].DBInstanceIdentifier

\* a failover was issued on a cluster whose first member is the writer and
\* which has two readers after it
C1_Witness ==
    /\ resource = "aurora_reboot" /\ op = "Update" /\ pc = "done"
    /\ Count("FailoverDBCluster") = 1
    /\ Len(DBClusterMembers) = 3
    /\ DBClusterMembers[1].IsClusterWriter
    /\ ~DBClusterMembers[2].IsClusterWriter
    /\ ~DBClusterMembers[3].IsClusterWriter

\* the calls a fan-out without failure makes, member by member in list order
FanOutTrace(m) ==
    <<<<"DescribeDBClusters", ident>>>>
    \o [k \in 1..Len(m) |-> <<"RebootDBInstance", m[k].DBInstanceIdentifier>>]
    \o (IF resource = "aurora_reboot"
        THEN <<<<"WaitDBClusterAvailable", ident>>>>
        ELSE [k \in 1..Len(m) |-> <<"WaitDBInstanceAvailable", m[k].DBInstanceIdentifier>>])

\* C2: a reboot that does not select failover and in which no call fails
\* issues no failover call and exactly one RebootDBInstance call per member,
\* all members whatever their role, in the order of the describe result; its
\* whole call sequence is determined by the member list.
C2_FanOutInListOrder ==
    (TopologyRead /\ pc = "done" /\ NoCallFailed
        /\ ~(resource = "aurora_reboot" /\ FailoverSelected)) =>
        /\ Count("FailoverDBCluster") = 0
        /\ Count("RebootDBInstance") = Len(DBClusterMembers)
        /\ \A k \in 1..Len(DBClusterMembers) :
               /\ calls[k + 1].api = "RebootDBInstance"
               /\ calls[k + 1].id = DBClusterMembers[k].DBInstanceIdentifier
        /\ CallTrace = FanOutTrace(DBClusterMembers)

\* an Aurora fan-out over three members with readers, force_failover false
C2_Witness ==
    /\ resource = "aurora_reboot" /\ op = "Create" /\ pc = "done"
    /\ ForceFailover = "false"
    /\ NoCallFailed
    /\ Len(DBClusterMembers) = 3
    /\ ~DBClusterMembers[1].IsClusterWriter
    /\ Count("RebootDBInstance") = 3

\* C3: on a cluster with exactly one member, whatever its role and whatever
\* force_failover, Aurora reboot issues exactly one RebootDBInstance call,
\* against that member and without the ForceFailover parameter, and no
\* FailoverDBCluster call.
C3_SingleMemberNoHint ==
    (resource = "aurora_reboot" /\ TopologyRead /\ Issued
        /\ Len(DBClusterMembers) = 1) =>
        /\ Count("FailoverDBCluster") = 0
        /\ Count("RebootDBInstance") = 1
        /\ \A k \in CallsOf("RebootDBInstance") :
               /\ calls[k].id = DBClusterMembers[1].DBInstanceIdentifier
               /\ calls[k].ForceFailover = "unset"

\* a single reader was rebooted with force_failover = true in the plan
C3_Witness ==
    /\ resource = "aurora_reboot" /\ op = "Create" /\ pc = "done"
    /\ Len(DBClusterMembers) = 1
    /\ ~DBClusterMembers[1].IsClusterWriter
    /\ ForceFailover = "true"
    /\ Count("RebootDBInstance") = 1

\* C4: a reboot (Aurora or Neptune, Create or Update) of a cluster that
\* exists but has no member fails with the empty-topology error, issues no
\* reboot or failover call, starts no wait and records no timestamp.
C4_EmptyTopologyFails ==
    (TopologyRead /\ Len(DBClusterMembers) = 0 /\ pc = "done") =>
        /\ diags = "No instances in cluster"
        /\ Count("RebootDBInstance") = 0
        /\ Count("FailoverDBCluster") = 0
        /\ Count("WaitDBClusterAvailable") = 0
        /\ Count("WaitDBInstanceAvailable") = 0
        /\ ~wrote

\* C5: a reboot or modify handler writes a timestamp only if every call it
\* issued (mutations and waits) returned without error and, in the polling
\* loop, the last describe reported available; the timestamp is taken when
\* all these calls, the last wait included, have returned.  A failing call
\* is the last call of its handler, which has returned without writing.
C5_NoPartialSuccess ==
    Mutating =>
        /\ wrote =>
               /\ NoCallFailed
               /\ diags = "none"
               /\ pc = "done"
               /\ tfstate.present
               /\ tfstate.time = [op |-> opCount, at |-> Len(calls)]
               /\ resource = "neptune_modify" => lastStatus = "available"
        /\ (tfstate.present /\ tfstate.time.op = opCount) => wrote
        /\ diags # "none" => (pc = "done" /\ ~wrote)
        /\ \A k \in 1..Len(calls) :
               calls[k].err => (k = Len(calls) /\ diags # "none")

\* Neptune reboot of two or more instances: every reboot returned, the
\* first wait succeeded, the second wait failed, nothing is in the state
C5_Witness ==
    /\ resource = "neptune_reboot" /\ op = "Create" /\ pc = "done"
    /\ Count("RebootDBInstance") >= 2
    /\ Count("WaitDBInstanceAvailable") = 2
    /\ calls[Len(calls)].err
    /\ ~tfstate.present

MutationCalls == CallsOf("RebootDBInstance") \cup CallsOf("FailoverDBCluster")

WaitApis == {"WaitDBClusterAvailable", "WaitDBInstanceAvailable"}

\* C6: a reboot handler that reports success has, for every resource that
\* received a mutation call (each rebooted instance, the cluster failed
\* over), a later wait on that resource that returned available.
C6_EveryMutatedResourceObserved ==
    (resource \in {"aurora_reboot", "neptune_reboot", "rds_reboot"}
        /\ Mutating /\ wrote) =>
        \A k \in MutationCalls :
            \E j \in (k + 1)..Len(calls) :
                /\ calls[j].api \in WaitApis
                /\ calls[j].id = calls[k].id
                /\ ~calls[j].err

Polling == resource = "neptune_modify" /\ Mutating

\* C7: the polling loop never makes a 61st describe call; it reports the
\* timeout only when 60 describe calls have returned without error; and a
\* handler that ended with no failed call and without having seen available
\* ended with the timeout after 60 describe calls.
C7_TimeoutAfterSixtyAttempts ==
    Polling =>
        /\ Count("DescribeDBClusters") <= 60
        /\ diags = "Timeout waiting for Neptune cluster" =>
               /\ Count("DescribeDBClusters") = 60
               /\ NoCallFailed
               /\ pc = "done"
        /\ (pc = "done" /\ NoCallFailed /\ lastStatus \notin {"available", "none"}) =>
               /\ diags = "Timeout waiting for Neptune cluster"
               /\ Count("DescribeDBClusters") = 60

\* the timeout was reported by a Create
C7_Witness ==
    /\ Polling /\ op = "Create"
    /\ diags = "Timeout waiting for Neptune cluster"
    /\ Count("Sleep") = 59

\* C8: when a describe call of the wait reports the resource in a failed
\* status, the wait ends as a failure: the handler has returned with an
\* error and does not sleep and poll again.
C8_FailedStatusEndsWait ==
    (Polling /\ lastStatus = "failed") => (pc = "done" /\ diags # "none")

\* C9: a describe error in the polling loop, at whatever attempt, is the
\* last call of the handler: the handler has returned with the describe
\* error, nothing was written, and no describe, sleep or other call follows
\* the failed describe.
C9_DescribeErrorIsFinal ==
    (Polling /\ \E k \in CallsOf("DescribeDBClusters") : calls[k].err) =>
        /\ pc = "done"
        /\ diags = "Error describing Neptune cluster"
        /\ ~wrote
        /\ calls[Len(calls)].api = "DescribeDBClusters"
        /\ \A k \in 1..Len(calls) : calls[k].err => k = Len(calls)
        /\ Count("DescribeDBClusters") \in 1..60
        /\ Count("Sleep") = Count("DescribeDBClusters") - 1

\* the describe of the 60th attempt failed
C9_Witness ==
    /\ Polling
    /\ lastStatus = "error"
    /\ Count("DescribeDBClusters") = 60

RebootErrors == {"Error rebooting Aurora instance", "Error rebooting Neptune instance"}

\* C10: when the reboot call of the k-th member fails during fan-out, the
\* handler has returned with the reboot error; its calls are the describe
\* and the reboots of members 1..k in list order and nothing else (no later
\* member, no compensation, no wait); nothing was written.
C10_FanOutAbortsAtFirstFailure ==
    (resource \in {"aurora_reboot", "neptune_reboot"} /\ Mutating
        /\ \E k \in CallsOf("RebootDBInstance") : calls[k].err) =>
        LET n == Len(calls) - 1
        IN  /\ pc = "done"
            /\ diags \in RebootErrors
            /\ n \in 1..Len(DBClusterMembers)
            /\ calls[n + 1].err
            /\ CallTrace =
                   <<<<"DescribeDBClusters", ident>>>>
                   \o [j \in 1..n |->
                         <<"RebootDBInstance", DBClusterMembers[j].DBInstanceIdentifier>>]
            /\ ~wrote
            /\ ~(tfstate.present /\ tfstate.time.op = opCount)

\* the reboot of the second of three members failed
C10_Witness ==
    /\ resource = "aurora_reboot" /\ op = "Create"
    /\ Len(DBClusterMembers) = 3
    /\ Len(calls) = 3
    /\ calls[3].api = "RebootDBInstance"
    /\ calls[3].err


\* the position of the k-th call among the per-member waits
WaitRank(k) == Cardinality({j \in CallsOf("WaitDBInstanceAvailable") : j <= k})

\* C11: Neptune reboot (Create and Update) watches the members one at a
\* time in list order: the j-th wait call is for the j-th member and every
\* wait before it returned success; a wait that failed is the last call of
\* the handler, which has returned with the wait error naming that member
\* and has written nothing.
C11_WaitsOneAtATimeInOrder ==
    (resource = "neptune_reboot" /\ Mutating) =>
        \A k \in CallsOf("WaitDBInstanceAvailable") :
            /\ WaitRank(k) \in 1..Len(DBClusterMembers)
            /\ calls[k].id = DBClusterMembers[WaitRank(k)].DBInstanceIdentifier
            /\ \A j \in CallsOf("WaitDBInstanceAvailable") : j < k => ~calls[j].err
            /\ calls[k].err =>
                 /\ k = Len(calls)
                 /\ pc = "done"
                 /\ diags = "Error waiting for Neptune instance to become available"
                 /\ detail = calls[k].id
                 /\ ~wrote
                 /\ ~(tfstate.present /\ tfstate.time.op = opCount)

\* the wait for the second of three members failed
C11_Witness ==
    /\ resource = "neptune_reboot" /\ op = "Create"
    /\ Len(DBClusterMembers) = 3
    /\ Count("WaitDBInstanceAvailable") = 2
    /\ calls[Len(calls)].api = "WaitDBInstanceAvailable"
    /\ calls[Len(calls)].err
    /\ pc = "done"


\* the handler that returned produced a timestamp of its own
TimestampProduced ==
    /\ wrote
    /\ tfstate.present
    /\ tfstate.time.op = opCount
    /\ tfstate.time # NoState.time

\* the state holds no timestamp of the running handler
NoTimestampProduced ==
    /\ ~wrote
    /\ ~(tfstate.present /\ tfstate.time.op = opCount)

\* C12: a Create or Update that has returned either succeeded, with a
\* non-empty timestamp of its own in the state and no error reported, or
\* failed, with an error reported and no timestamp of its own; it never
\* has both an error and a new timestamp, and never neither.
C12_OutcomeIsSuccessOrFailure ==
    (Mutating /\ pc = "done") =>
        /\ (diags = "none") => TimestampProduced
        /\ (diags # "none") => NoTimestampProduced
        /\ TimestampProduced # NoTimestampProduced

\* an Update of the RDS modify resource failed in its waiter; the state
\* still holds the timestamp of the Create before it
C12_Witness ==
    /\ resource = "rds_modify" /\ op = "Update" /\ pc = "done"
    /\ diags = "Error waiting for RDS instance to become available"
    /\ tfstate.present
    /\ tfstate.time.op < opCount
    /\ tfstate.time # NoState.time


\* C13: a Read that got a client issues exactly one describe call and no
\* wait, poll or mutation call; when that call reports the resource as
\* absent, by an error or by an empty result list, the Read fails.
C13_ReadReportsAbsence ==
    (op = "Read" /\ pc = "done" /\ diags # "Unable to load AWS SDK config") =>
        /\ Len(calls) = 1
        /\ calls[1].api = ReadApi(resource)
        /\ lastStatus \in {"error", "empty"} =>
               /\ diags = ReadError(resource)
               /\ ~wrote


NotFoundErrors == {"Aurora cluster not found", "Neptune cluster not found"}

\* C14: when the topology describe of a reboot handler (Aurora or Neptune,
\* Create or Update) returns an empty cluster list, the handler has
\* returned with the not-found error naming the cluster identifier; the
\* describe is its only call (no reboot, no failover, no wait) and nothing
\* was written.
C14_ClusterNotFoundStopsReboot ==
    (resource \in {"aurora_reboot", "neptune_reboot"} /\ Mutating
        /\ lastStatus = "empty") =>
        /\ pc = "done"
        /\ diags \in NotFoundErrors
        /\ detail = ident
        /\ CallTrace = <<<<"DescribeDBClusters", ident>>>>
        /\ ~calls[1].err
        /\ ~wrote
        /\ ~(tfstate.present /\ tfstate.time.op = opCount)

\* an Aurora reboot Create whose describe found no cluster, force_failover set
C14_Witness ==
    /\ resource = "aurora_reboot" /\ op = "Create"
    /\ ForceFailover = "true"
    /\ lastStatus = "empty"
    /\ diags = "Aurora cluster not found"


MutationApis ==
    {"ModifyDBCluster", "ModifyDBInstance", "FailoverDBCluster", "RebootDBInstance"}

\* the calls j and k ask the same thing of the same resource
SameRequest(j, k) ==
    /\ calls[j].api = calls[k].api
    /\ calls[j].id = calls[k].id
    /\ calls[j].target = calls[k].target

\* C15: within one handler no mutation call (modify, failover, reboot of a
\* given member) is issued twice, and a mutation call, native wait or
\* describe call that returned an error is not issued again: it is the
\* last call of the handler, which has returned with an error.
C15_NoAutomaticRetries ==
    \A k \in 1..Len(calls) :
        /\ calls[k].api \in MutationApis =>
               \A j \in 1..Len(calls) : (j # k) => ~SameRequest(j, k)
        /\ calls[k].err =>
               /\ \A j \in (k + 1)..Len(calls) : ~SameRequest(j, k)
               /\ k = Len(calls)
               /\ pc = "done"
               /\ diags # "none"

\* Neptune modify: the third polling describe failed after two that
\* reported a status other than available
C15_Witness ==
    /\ resource = "neptune_modify" /\ op = "Create" /\ pc = "done"
    /\ Count("ModifyDBCluster") = 1
    /\ Count("DescribeDBClusters") = 3
    /\ calls[Len(calls)].api = "DescribeDBClusters"
    /\ calls[Len(calls)].err


\* the instance identifiers of the member list the handler holds
SnapshotIds ==
    {DBClusterMembers[k].DBInstanceIdentifier : k \in 1..Len(DBClusterMembers)}

\* C16: a reboot handler (Aurora or Neptune, Create or Update) issues at
\* most one topology describe, as its first call and before any mutation
\* call; the member list it holds is empty until that describe of its own
\* has returned a cluster, and the failover target and every rebooted
\* instance are members of that list.
C16_OneFreshTopologySnapshot ==
    (resource \in {"aurora_reboot", "neptune_reboot"} /\ Mutating) =>
        /\ Count("DescribeDBClusters") <= 1
        /\ Len(calls) >= 1 =>
               (calls[1].api = "DescribeDBClusters" /\ calls[1].id = ident)
        /\ pc = "describe" => (calls = <<>> /\ DBClusterMembers = <<>>)
        /\ DBClusterMembers # <<>> => (lastStatus = "found" /\ ~calls[1].err)
        /\ \A k \in CallsOf("RebootDBInstance") : calls[k].id \in SnapshotIds
        /\ \A k \in CallsOf("FailoverDBCluster") : calls[k].target \in SnapshotIds

\* an Update after a Create: a failover issued from the three-member
\* snapshot of the Update
C16_Witness ==
    /\ resource = "aurora_reboot" /\ op = "Update" /\ opCount = 2
    /\ Len(DBClusterMembers) = 3
    /\ Count("DescribeDBClusters") = 1
    /\ Count("FailoverDBCluster") = 1


\* C19: Neptune reboot waits for its N members one after the other with a
\* budget of 30 minutes each; the time spent waiting never exceeds the
\* budget times the number of waits started, and when the handler has
\* failed in a wait it is at most N times the budget.
C19_SequentialWaitWithinNTimesBudget ==
    (resource = "neptune_reboot" /\ Mutating) =>
        /\ Count("WaitDBInstanceAvailable") <= Len(DBClusterMembers)
        /\ elapsed <= Count("WaitDBInstanceAvailable") * WaitBudgetSeconds
        /\ (pc = "done"
              /\ diags = "Error waiting for Neptune instance to become available") =>
               elapsed <= Len(DBClusterMembers) * WaitBudgetSeconds

\* the worst case: three members, the first two waits used up their
\* budget and returned, the third timed out
C19_Witness ==
    /\ resource = "neptune_reboot" /\ op = "Create" /\ pc = "done"
    /\ diags = "Error waiting for Neptune instance to become available"
    /\ Len(DBClusterMembers) = 3
    /\ Count("WaitDBInstanceAvailable") = 3
    /\ elapsed = 3 * WaitBudgetSeconds


\* C20: for the RDS reboot resource, the state written by a successful
\* Create, Update, Read or import has id equal to db_instance_identifier.
C20_IdIsInstanceIdentifier ==
    (resource = "rds_reboot"
        /\ op \in {"Create", "Update", "Read", "Import"}
        /\ pc = "done" /\ diags = "none" /\ wrote) =>
        /\ tfstate.present
        /\ tfstate.id = tfstate.identifier


\* the calls that waited for the resource id and returned without error
ObservedAvailable(id) ==
    {k \in 1..Len(calls) : calls[k].api \in WaitApis /\ calls[k].id = id /\ ~calls[k].err}

\* a handler that returned success has seen every resource it watches in
\* the available status: the polled cluster in its last describe, each
\* member of the Neptune reboot and the cluster or instance of the other
\* resources in a wait that returned
WatchedObserved ==
    (Mutating /\ pc = "done" /\ diags = "none") =>
        IF resource = "neptune_modify"
        THEN lastStatus = "available" /\ calls[Len(calls)].api = "DescribeDBClusters"
        ELSE IF resource = "neptune_reboot"
        THEN \A m \in SnapshotIds : ObservedAvailable(m) # {}
        ELSE ObservedAvailable(ident) # {}

\* C18: provided every API call and native wait returns, every Create and
\* Update returns; the polling loop makes at most 60 describe calls, and
\* no handler returns success before each resource it watches was observed
\* available.
C18_ReturnsAfterObservingWatched ==
    /\ [](Polling => Count("DescribeDBClusters") <= maxAttempts)
    /\ []WatchedObserved
    /\ (Running /\ Mutating) ~> (pc = "done")

\* a polling Update returned success on its 60th describe
C18_Witness ==
    /\ Polling /\ op = "Update" /\ pc = "done"
    /\ diags = "none"
    /\ Count("DescribeDBClusters") = maxAttempts
    /\ lastStatus = "available"


\* the client an invocation with script s uses when it runs alone: its
\* region client, or r.client as Configure left it
SoloClient(s) == IF s.Region # "null" THEN s.Region ELSE "default"

\* the calls the Create handler goes through when none of them fails
SoloPlanned(s) ==
    <<[api |-> "DescribeDBClusters", id |-> s.cluster]>>
    \o [k \in 1..Len(s.members) |->
          [api |-> "RebootDBInstance", id |-> s.members[k].DBInstanceIdentifier]]
    \o [k \in 1..Len(s.members) |->
          [api |-> "WaitDBInstanceAvailable", id |-> s.members[k].DBInstanceIdentifier]]

\* the script makes one of the planned calls fail
SoloFails(s) == s.failAt \in 1..Len(SoloPlanned(s))

\* the call log of the invocation with script s when it runs alone
SoloCalls(s) ==
    LET n == IF SoloFails(s) THEN s.failAt ELSE Len(SoloPlanned(s))
    IN  [k \in 1..n |-> ConcCall(SoloClient(s), SoloPlanned(s)[k].api,
                                 SoloPlanned(s)[k].id, k = s.failAt)]

\* the diagnostics of the invocation with script s when it runs alone
SoloDiags(s) ==
    IF SoloFails(s)
    THEN LET api == SoloPlanned(s)[s.failAt].api
         IN  IF api = "DescribeDBClusters" THEN "Error describing Neptune cluster"
             ELSE IF api = "RebootDBInstance" THEN "Error rebooting Neptune instance"
             ELSE "Error waiting for Neptune instance to become available"
    ELSE IF Len(s.members) = 0 THEN "No instances in cluster"
    ELSE "none"

IsPrefix(a, b) == Len(a) <= Len(b) /\ \A k \in 1..Len(a) : a[k] = b[k]

\* C17: two Create handlers running at the same time against different
\* clusters do not interfere: under every interleaving of their calls,
\* each issues the calls it issues when it runs alone (same client, same
\* targets, same order) and returns the same diagnostics and the same
\* decision to write; r.client is never written.
C17_ConcurrentRunsAsAlone ==
    /\ rclient = "default"
    /\ \A p \in DOMAIN inv :
         /\ IsPrefix(inv[p].calls, SoloCalls(inv[p].script))
         /\ inv[p].pc = "done" =>
                /\ inv[p].calls = SoloCalls(inv[p].script)
                /\ inv[p].diags = SoloDiags(inv[p].script)
                /\ inv[p].wrote = (SoloDiags(inv[p].script) = "none")

\* both handlers are in flight: the first, with a region of its own, is
\* waiting for its instances while the second, on r.client, is rebooting
C17_Witness ==
    /\ inv # <<>>
    /\ inv[1].script.Region # "null" /\ inv[2].script.Region = "null"
    /\ inv[1].pc = "wait" /\ Len(inv[1].calls) = 4
    /\ inv[2].pc = "reboot" /\ Len(inv[2].calls) = 2


\* C21: in the polling loop of Neptune modify, once a describe call has
\* reported available the loop is over: that describe is the last call of
\* the handler (no further describe, no sleep), the handler has returned
\* without error and has written its timestamp.
C21_AvailableEndsPolling ==
    (Polling /\ lastStatus = "available") =>
        /\ pc = "done"
        /\ calls[Len(calls)].api = "DescribeDBClusters"
        /\ ~calls[Len(calls)].err
        /\ diags = "none"
        /\ wrote
        /\ tfstate.present
        /\ tfstate.time = [op |-> opCount, at |-> Len(calls)]

\* available was reported by the third describe of a Create
C21_Witness ==
    /\ Polling /\ op = "Create"
    /\ lastStatus = "available"
    /\ Count("DescribeDBClusters") = 3
    /\ Count("Sleep") = 2


ModifyResources == {"aurora_modify", "neptune_modify", "rds_modify"}

\* the mutation API of a modify resource
ModifyApi(res) == IF res = "rds_modify" THEN "ModifyDBInstance" ELSE "ModifyDBCluster"

\* the handler uses one mutation call for the whole operation: the modify
\* resources always, Aurora reboot when it took the failover branch
SingleCallStrategy ==
    /\ Mutating
    /\ \/ resource \in ModifyResources
       \/ resource = "aurora_reboot" /\ Count("FailoverDBCluster") > 0

\* the calls of the mutation APIs
AllMutations == {k \in 1..Len(calls) : calls[k].api \in MutationApis}

\* C22: a modify handler issues exactly one mutation call, ModifyDBCluster
\* or ModifyDBInstance on the configured identifier; Aurora reboot in the
\* failover branch issues exactly one, FailoverDBCluster naming the cluster
\* and the selected reader.  When that call returned an error it is the
\* last call of the handler (no describe, no wait after it), which has
\* returned with an error and written nothing.
C22_OneMutationCallFailsAtOnce ==
    SingleCallStrategy =>
        /\ Cardinality(AllMutations) <= 1
        /\ (pc \in {"wait", "poll", "sleep"} \/ wrote) => Cardinality(AllMutations) = 1
        /\ \A k \in AllMutations :
               /\ calls[k].id = ident
               /\ IF resource = "aurora_reboot"
                  THEN /\ calls[k].api = "FailoverDBCluster"
                       /\ calls[k].target = readerInstanceID(DBClusterMembers)
                  ELSE /\ calls[k].api = ModifyApi(resource)
                       /\ k = 1
               /\ calls[k].err =>
                      /\ k = Len(calls)
                      /\ pc = "done"
                      /\ diags # "none"
                      /\ ~wrote
                      /\ ~(tfstate.present /\ tfstate.time.op = opCount)

\* the failover call of an Aurora reboot Create returned an error
C22_Witness ==
    /\ resource = "aurora_reboot" /\ op = "Create"
    /\ Count("FailoverDBCluster") = 1
    /\ calls[Len(calls)].api = "FailoverDBCluster"
    /\ calls[Len(calls)].err
    /\ diags = "Error failing over Aurora cluster"


\* C23: in the fan-out of Aurora reboot, every reboot request carries the
\* ForceFailover parameter with the caller's value, true or false, when
\* the cluster has at least two members and force_failover is set in the
\* plan, also when force_failover is true and no member is a reader; no
\* request carries it when the cluster has fewer than two members or
\* force_failover is unset.
C23_HintForwardedFromTwoMembers ==
    (resource = "aurora_reboot" /\ Mutating) =>
        \A k \in CallsOf("RebootDBInstance") :
            /\ (Len(DBClusterMembers) >= 2 /\ ForceFailover # "unset") =>
                   calls[k].ForceFailover = ForceFailover
            /\ (Len(DBClusterMembers) < 2 \/ ForceFailover = "unset") =>
                   calls[k].ForceFailover = "unset"

\* force_failover = true on a cluster of two writers: both were rebooted
\* with the hint
C23_Witness ==
    /\ resource = "aurora_reboot" /\ op = "Update"
    /\ ForceFailover = "true"
    /\ Len(DBClusterMembers) = 2
    /\ \A k \in 1..Len(DBClusterMembers) : DBClusterMembers[k].IsClusterWriter
    /\ Count("RebootDBInstance") = 2
    /\ \A k \in CallsOf("RebootDBInstance") : calls[k].ForceFailover = "true"


\* Aurora / Neptune / RDS, as the error summaries of a resource name it
Family(res) ==
    IF res \in {"aurora_reboot", "aurora_modify"} THEN "Aurora"
    ELSE IF res \in {"neptune_reboot", "neptune_modify"} THEN "Neptune"
    ELSE "RDS"

\* the error summary a Create handler of resource res adds when its call
\* of the given API returns an error
CreateErrorOf(res, api) ==
    IF api = "DescribeDBClusters"
    THEN IF Family(res) = "Aurora" THEN "Error describing Aurora cluster"
         ELSE "Error describing Neptune cluster"
    ELSE IF api = "FailoverDBCluster" THEN "Error failing over Aurora cluster"
    ELSE IF api = "RebootDBInstance"
    THEN IF Family(res) = "Aurora" THEN "Error rebooting Aurora instance"
         ELSE IF Family(res) = "Neptune" THEN "Error rebooting Neptune instance"
         ELSE "Error rebooting RDS instance"
    ELSE IF api = "ModifyDBCluster"
    THEN IF Family(res) = "Aurora" THEN "Error modifying Aurora cluster"
         ELSE "Error modifying Neptune cluster"
    ELSE IF api = "ModifyDBInstance" THEN "Error modifying RDS instance"
    ELSE IF api = "WaitDBClusterAvailable"
    THEN "Error waiting for Aurora cluster to become available"
    ELSE IF Family(res) = "Neptune"
    THEN "Error waiting for Neptune instance to become available"
    ELSE "Error waiting for RDS instance to become available"

\* how the Create handler of the resource ends when it was given the plan
\* and has seen the API answers that the handler at hand has seen: the
\* calls with their errors, the describe result, the member list
CreateOutcome ==
    IF Len(calls) = 0 THEN "Unable to load AWS SDK config"
    ELSE IF calls[Len(calls)].err
    THEN CreateErrorOf(resource, calls[Len(calls)].api)
    ELSE IF resource = "aurora_reboot" /\ lastStatus = "empty"
    THEN "Aurora cluster not found"
    ELSE IF resource = "neptune_reboot" /\ lastStatus = "empty"
    THEN "Neptune cluster not found"
    ELSE IF resource = "neptune_reboot" /\ Len(DBClusterMembers) = 0
    THEN "No instances in cluster"
    ELSE IF resource = "neptune_modify" /\ lastStatus # "available"
    THEN "Timeout waiting for Neptune cluster"
    ELSE "none"

\* C24: for every mutating resource, an Update that has returned ended as
\* the Create of the same resource ends on the same plan and the same API
\* answers: the same error or the same success, with the state written
\* exactly on success.
C24_UpdateEndsAsCreate ==
    (Mutating /\ pc = "done") =>
        /\ diags = CreateOutcome
        /\ wrote = (CreateOutcome = "none")


\* C25: in Neptune reboot (Create and Update) issuing and waiting are two
\* phases: when a wait call has been made, the reboot of every member has
\* been issued and has returned without error, and every reboot call
\* precedes every wait call.
C25_RebootPhaseBeforeWaitPhase ==
    (resource = "neptune_reboot" /\ Mutating
        /\ Count("WaitDBInstanceAvailable") > 0) =>
        /\ Count("RebootDBInstance") = Len(DBClusterMembers)
        /\ \A j \in CallsOf("RebootDBInstance") : ~calls[j].err
        /\ \A m \in SnapshotIds :
               \E j \in CallsOf("RebootDBInstance") : calls[j].id = m
        /\ \A j \in CallsOf("RebootDBInstance"), k \in CallsOf("WaitDBInstanceAvailable") :
               j < k

\* three members: all three reboots were issued, the first wait is made
C25_Witness ==
    /\ resource = "neptune_reboot" /\ op = "Update"
    /\ Len(DBClusterMembers) = 3
    /\ Count("RebootDBInstance") = 3
    /\ Count("WaitDBInstanceAvailable") = 1
    /\ pc = "wait"


\* C26: in the polling loop of Neptune modify, a describe that returned no
\* error and an empty cluster list is treated as a status that is not yet
\* available: before the 60th describe the handler sleeps and polls again
\* with no error reported, at the 60th it ends with the timeout error; it
\* never reports not-found and never writes on such an answer.
C26_EmptyListPollsOn ==
    Polling =>
        /\ diags \notin NotFoundErrors
        /\ lastStatus = "empty" =>
               /\ ~wrote
               /\ pc \in {"sleep", "poll", "done"}
               /\ pc = "sleep" =>
                      /\ diags = "none"
                      /\ Count("DescribeDBClusters") < maxAttempts
                      /\ calls[Len(calls)].api = "DescribeDBClusters"
               /\ pc = "poll" =>
                      /\ diags = "none"
                      /\ Count("DescribeDBClusters") < maxAttempts
                      /\ calls[Len(calls)].api = "Sleep"
               /\ pc = "done" =>
                      /\ diags = "Timeout waiting for Neptune cluster"
                      /\ Count("DescribeDBClusters") = maxAttempts

\* the second describe of an Update returned an empty list; the handler
\* slept and is about to poll again
C26_Witness ==
    /\ Polling /\ op = "Update"
    /\ lastStatus = "empty"
    /\ Count("DescribeDBClusters") = 2
    /\ Count("Sleep") = 2
    /\ pc = "poll"


\* the polling loop has ended: a describe was made and the handler returned
PollingEnded == Polling /\ pc = "done" /\ Count("DescribeDBClusters") >= 1

\* C27: the polling loop of Neptune modify sleeps 30 seconds only between
\* two attempts: every sleep directly follows a describe and, unless the
\* next describe is still to come, is directly followed by one; a loop
\* that ended at attempt k has made k describe calls and k - 1 sleeps and
\* has slept (k - 1) * 30 seconds, its last call being the describe; at
\* the timeout that is 59 sleeps, 59 * 30 seconds.
C27_SleepOnlyBetweenAttempts ==
    Polling =>
        /\ elapsed = Count("Sleep") * SleepSeconds
        /\ \A k \in CallsOf("Sleep") :
               /\ k > 1 /\ calls[k - 1].api = "DescribeDBClusters"
               /\ k < Len(calls) => calls[k + 1].api = "DescribeDBClusters"
               /\ k = Len(calls) => pc = "poll"
        /\ PollingEnded =>
               /\ Count("Sleep") = Count("DescribeDBClusters") - 1
               /\ calls[Len(calls)].api = "DescribeDBClusters"
        /\ diags = "Timeout waiting for Neptune cluster" =>
               /\ Count("Sleep") = 59
               /\ elapsed = 59 * 30

\* the loop of a Create ended at attempt 4 with a describe error
C27_Witness ==
    /\ PollingEnded /\ op = "Create"
    /\ Count("DescribeDBClusters") = 4
    /\ Count("Sleep") = 3
    /\ elapsed = 90
    /\ diags = "Error describing Neptune cluster"


\* C28: a Read step changes nothing but the diagnostics: the call it adds
\* is the describe of its resource (no mutation call), the state it leaves
\* is the prior state with timestamp, id and identifier unchanged, written
\* back when the describe returned without error and not written when it
\* returned an error.
C28_ReadKeepsState ==
    [][(op = "Read" /\ pc = "read") =>
          /\ tfstate' = tfstate
          /\ \A k \in 1..Len(calls') : calls'[k].api = ReadApi(resource)
          /\ Len(calls') <= 1
          /\ wrote' = (Len(calls') = 1 /\ ~calls'[1].err)
          /\ wrote' = (diags' = "none")]_vars

\* a Read after a Create wrote back the state the Create had written
C28_Witness ==
    /\ op = "Read" /\ pc = "done" /\ wrote
    /\ resource = "rds_modify"
    /\ tfstate.present
    /\ tfstate.time.op = 1 /\ opCount = 2
    /\ tfstate.id = ident


GoodResponse(r) ==
    /\ r.kind = "output"
    /\ r.Payload.json
    /\ r.Payload.statusCode = "number"
    /\ r.Payload.n \in 200..299
    /\ ~r.FunctionError

\* C30: for execute_aws_lambda_function, a Create or Update writes the
\* state exactly when the invocation returned a parsable payload with a
\* status code in 200..299 and no FunctionError, and then with
\* execution_succeeded = true; on an invocation error, an unparsable
\* payload, a FunctionError or another status code it fails with an error
\* and writes nothing.  execution_succeeded = false is never in the state.
C30_ExecutionSucceededIsTrue ==
    /\ lambda.state.execution_succeeded # "false"
    /\ (lambda.op \in {"Create", "Update"} /\ lambda.pc = "done") =>
           /\ lambda.wrote = GoodResponse(lambda.response)
           /\ lambda.wrote =>
                  /\ lambda.diags = "none"
                  /\ lambda.state.present
                  /\ lambda.state.execution_succeeded = "true"
           /\ ~lambda.wrote =>
                  lambda.diags = "Failed to execute AWS Lambda function"

\* an Update whose invocation answered status code 300 failed; the state
\* is the one the Create before it wrote
C30_Witness ==
    /\ lambda.op = "Update" /\ lambda.pc = "done"
    /\ lambda.response.kind = "output"
    /\ lambda.response.Payload.statusCode = "number"
    /\ lambda.response.Payload.n = 300
    /\ ~lambda.response.FunctionError
    /\ lambda.diags = "Failed to execute AWS Lambda function"
    /\ lambda.state.execution_succeeded = "true"

====
